---- MODULE Spec2Model ----
(***************************************************************************)
(* Model of libsyntax's diagnostics plugin (diagnostics/plugin.rs) and of  *)
(* the macro-expansion base (ext/base.rs).                                 *)
(*                                                                         *)
(* Strings are sequences of Unicode code points; str::len() is the UTF-8   *)
(* byte length.  Option<T> is a sequence of length at most one.            *)
(***************************************************************************)
EXTENDS Integers, Sequences, FiniteSets, TLC

\* ------------------------------------------------------------------ bounds
NumCodes == 2
NumSpans == 2
MaxOps == 4
NumInvocs == 3
NumExpns == 3
MaxCtxCalls == 2

\* ------------------------------------------------------------ Option<T>
None == << >>
Some(x) == << x >>
IsSome(o) == Len(o) = 1
Unwrap(o) == o[1]

\* ---------------------------------------------------------------- strings
\* Code points of the characters the source names.
StrNL == << 10 >>
StrLBracket == << 91 >>
StrRBracketColon == << 93, 58 >>
StrHttp == << 104, 116, 116, 112 >>

\* UTF-8 width of one code point.
Utf8Len(cp) == IF cp < 128 THEN 1 ELSE IF cp < 2048 THEN 2 ELSE IF cp < 65536 THEN 3 ELSE 4

RECURSIVE str_len(_)
\* str::len(): the length in bytes.
str_len(s) == IF s = << >> THEN 0 ELSE Utf8Len(Head(s)) + str_len(Tail(s))

starts_with(s, p) == Len(s) >= Len(p) /\ SubSeq(s, 1, Len(p)) = p

ends_with(s, p) == Len(s) >= Len(p) /\ SubSeq(s, Len(s) - Len(p) + 1, Len(s)) = p

contains(s, p) == \E i \in 1..(Len(s) - Len(p) + 1) : SubSeq(s, i, i + Len(p) - 1) = p

\* Index of the first line feed of s, 0 when there is none.
FirstNL(s) == IF \E i \in 1..Len(s) : s[i] = 10
              THEN CHOOSE i \in 1..Len(s) : s[i] = 10 /\ \A j \in 1..(i - 1) : s[j] # 10
              ELSE 0

RECURSIVE split_nl(_)
\* str::split('\n').
split_nl(s) == LET i == FirstNL(s)
               IN IF i = 0 THEN << s >>
                  ELSE << SubSeq(s, 1, i - 1) >> \o split_nl(SubSeq(s, i + 1, Len(s)))

\* str::split_terminator('\n'): a trailing empty piece is dropped.
split_terminator(s) == LET p == split_nl(s)
                       IN IF p[Len(p)] = << >> THEN SubSeq(p, 1, Len(p) - 1) ELSE p

\* One trailing carriage return is not part of a line.
strip_cr(l) == IF Len(l) > 0 /\ l[Len(l)] = 13 THEN SubSeq(l, 1, Len(l) - 1) ELSE l

\* str::lines().
lines(s) == LET p == split_terminator(s) IN [i \in 1..Len(p) |-> strip_cr(p[i])]

\* ------------------------------------------------------ description check
MAX_DESCRIPTION_WIDTH == 80

is_url(l) == starts_with(l, StrLBracket) /\ contains(l, StrRBracketColon) /\ contains(l, StrHttp)

\* Variant: only a description lacking both line breaks is malformed.
BadNewlineBoth(msg) == ~starts_with(msg, StrNL) /\ ~ends_with(msg, StrNL)

BadNewline(msg) == ~starts_with(msg, StrNL) \/ ~ends_with(msg, StrNL)

BadWidth(msg) == LET ls == lines(msg)
                 IN \E i \in 1..Len(ls) : str_len(ls[i]) > MAX_DESCRIPTION_WIDTH /\ ~is_url(ls[i])

\* A diagnostic handed to the session's handler.
Diag(level, msg, code, span, note) ==
    [level |-> level, msg |-> msg, code |-> code, span |-> span, note |-> note]

\* The errors the description check of expand_register_diagnostic emits.
CheckDescription(code, span, description) ==
    IF ~IsSome(description) THEN << >>
    ELSE (IF BadNewline(Unwrap(description))
          THEN << Diag("error", "no_newline", code, span, None) >> ELSE << >>)
         \o
         (IF BadWidth(Unwrap(description))
          THEN << Diag("error", "line_too_long", code, span, None) >> ELSE << >>)

\* ------------------------------------------------------------- data types
Names == 1..NumCodes
Spans == 1..NumSpans

\* Token trees of a macro invocation.
TokIdent(n) == [kind |-> "Ident", sym |-> n]
TokComma == [kind |-> "Comma"]
TokLit(s) == [kind |-> "Literal", sym |-> s]

ErrorInfo(description, use_site) == [description |-> description, use_site |-> use_site]

\* BTreeMap::get_mut(k): the entry of k, if any.
get_mut(m, k) == IF k \in DOMAIN m THEN Some(m[k]) ELSE None

contains_key(m, k) == IsSome(get_mut(m, k))

\* BTreeMap::insert(k, v): the map afterwards (the value of an existing key is replaced).
btree_insert(m, k, v) == [x \in (DOMAIN m) \cup {k} |-> IF x = k THEN v ELSE m[x]]

\* Ord of Name, the key order of ErrorMap.
NameLess(a, b) == a < b

RECURSIVE btree_keys(_)
\* BTreeMap::iter(): the keys in ascending order.
btree_keys(S) == IF S = {} THEN << >>
                 ELSE LET k == CHOOSE x \in S : \A y \in S : y = x \/ NameLess(x, y)
                      IN << k >> \o btree_keys(S \ {k})

\* --------------------------------------------------------------- results
expr_tuple(span, elems) == [node |-> "Tup", elems |-> elems, span |-> span]
expr_str(span, s) == [node |-> "Lit", str |-> s, span |-> span]
\* struct MacEager with its derived Default: one Option per fragment kind.
MacEager_default ==
    [kind |-> "MacEager", expr |-> None, pat |-> None, items |-> None, impl_items |-> None,
     trait_items |-> None, foreign_items |-> None, stmts |-> None, ty |-> None]
MacEager_expr(e) == [MacEager_default EXCEPT !.expr = Some(e)]
MacEager_items(items) == [MacEager_default EXCEPT !.items = Some(items)]
\* assert!/assert_eq!/unreachable!: the call unwinds and returns nothing.
Panicked(why) == [kind |-> "panic", why |-> why]

Outcome(m, emitted, ret) == [diagnostics |-> m, emitted |-> emitted, ret |-> ret]

\* ------------------------------------------------ expand_diagnostic_used
\* Variant: a later use overwrites the recorded use site.
UsedLockedOverwrite(m, code, span) ==
    IF contains_key(m, code) /\ IsSome(m[code].use_site)
    THEN [diagnostics |-> [m EXCEPT ![code].use_site = Some(span)],
          emitted |-> << Diag("warning", "already_used", code, span, m[code].use_site) >>]
    ELSE IF contains_key(m, code)
    THEN [diagnostics |-> [m EXCEPT ![code].use_site = Some(span)], emitted |-> << >>]
    ELSE [diagnostics |-> m,
          emitted |-> << Diag("error", "not_registered", code, span, None) >>]

\* Variant: using an unregistered code creates its entry.
UsedLockedInserts(m, code, span) ==
    IF contains_key(m, code) /\ IsSome(m[code].use_site)
    THEN [diagnostics |-> m,
          emitted |-> << Diag("warning", "already_used", code, span, m[code].use_site) >>]
    ELSE IF contains_key(m, code)
    THEN [diagnostics |-> [m EXCEPT ![code].use_site = Some(span)], emitted |-> << >>]
    ELSE [diagnostics |-> btree_insert(m, code, ErrorInfo(None, Some(span))),
          emitted |-> << Diag("error", "not_registered", code, span, None) >>]

\* The match on what get_mut found: the registry afterwards and what is emitted.
UsedMatch(m, found, code, span) ==
    IF IsSome(found) /\ IsSome(Unwrap(found).use_site)
    THEN [diagnostics |-> m,
          emitted |-> << Diag("warning", "already_used", code, span, Unwrap(found).use_site) >>]
    ELSE IF IsSome(found)
    THEN [diagnostics |-> [m EXCEPT ![code].use_site = Some(span)], emitted |-> << >>]
    ELSE [diagnostics |-> m,
          emitted |-> << Diag("error", "not_registered", code, span, None) >>]

\* The closure run under the registry lock.
UsedLocked(m, code, span) == UsedMatch(m, get_mut(m, code), code, span)

expand_diagnostic_used(m, span, tts) ==
    IF Len(tts) # 1 THEN Outcome(m, << >>, Panicked("assert_eq"))
    ELSE IF tts[1].kind # "Ident" THEN Outcome(m, << >>, Panicked("unreachable"))
    ELSE LET r == UsedLocked(m, tts[1].sym, span)
         IN Outcome(r.diagnostics, r.emitted, MacEager_expr(expr_tuple(span, << >>)))

\* -------------------------------------------- expand_register_diagnostic
\* What is emitted for the previous value insert() returned.
RegisterReport(previous, code, span) ==
    IF IsSome(previous)
    THEN << Diag("error", "already_registered", code, span, None) >>
    ELSE << >>

\* The closure run under the registry lock.
RegisterLocked(m, code, span, description) ==
    [diagnostics |-> btree_insert(m, code, ErrorInfo(description, None)),
     emitted |-> RegisterReport(get_mut(m, code), code, span)]

\* The (code, description) the token trees parse to; ok is FALSE where the
\* source reaches unreachable!().
ParseRegister(tts) ==
    IF tts[1].kind # "Ident" THEN [ok |-> FALSE]
    ELSE IF Len(tts) = 1 THEN [ok |-> TRUE, code |-> tts[1].sym, description |-> None]
    ELSE IF tts[2].kind = "Comma" /\ tts[3].kind = "Literal"
    THEN [ok |-> TRUE, code |-> tts[1].sym, description |-> Some(tts[3].sym)]
    ELSE [ok |-> FALSE]

\* Variant: a malformed description blocks the registration.
expand_register_diagnostic_strict(m, span, tts) ==
    IF ~(Len(tts) = 1 \/ Len(tts) = 3) THEN Outcome(m, << >>, Panicked("assert"))
    ELSE LET p == ParseRegister(tts)
         IN IF ~p.ok THEN Outcome(m, << >>, Panicked("unreachable"))
            ELSE IF CheckDescription(p.code, span, p.description) # << >>
            THEN Outcome(m, CheckDescription(p.code, span, p.description), MacEager_items(<< >>))
            ELSE LET r == RegisterLocked(m, p.code, span, p.description)
                 IN Outcome(r.diagnostics, r.emitted, MacEager_items(<< >>))

expand_register_diagnostic(m, span, tts) ==
    IF ~(Len(tts) = 1 \/ Len(tts) = 3) THEN Outcome(m, << >>, Panicked("assert"))
    ELSE LET p == ParseRegister(tts)
         IN IF ~p.ok THEN Outcome(m, << >>, Panicked("unreachable"))
            ELSE LET r == RegisterLocked(m, p.code, span, p.description)
                 IN Outcome(r.diagnostics,
                            CheckDescription(p.code, span, p.description) \o r.emitted,
                            MacEager_items(<< >>))

\* ----------------------------------------- expand_build_diagnostic_array
\* Variant: the declared length counts every registered code.
BuildLockedCountAll(m, span) ==
    LET ks == btree_keys(DOMAIN m)
        withDescr == SelectSeq(ks, LAMBDA k : IsSome(m[k].description))
        descriptions == [i \in 1..Len(withDescr) |->
                            expr_tuple(span, << expr_str(span, withDescr[i]),
                                                expr_str(span, Unwrap(m[withDescr[i]].description)) >>)]
    IN [count |-> Len(ks), expr |-> [node |-> "Vec", elems |-> descriptions, span |-> span]]

\* The closure run under the registry lock: (count, expr).
BuildLocked(m, span) ==
    LET ks == btree_keys(DOMAIN m)
        withDescr == SelectSeq(ks, LAMBDA k : IsSome(m[k].description))
        descriptions == [i \in 1..Len(withDescr) |->
                            expr_tuple(span, << expr_str(span, withDescr[i]),
                                                expr_str(span, Unwrap(m[withDescr[i]].description)) >>)]
    IN [count |-> Len(descriptions), expr |-> [node |-> "Vec", elems |-> descriptions, span |-> span]]

expand_build_diagnostic_array(m, span, tts) ==
    IF Len(tts) # 3 THEN Outcome(m, << >>, Panicked("assert_eq"))
    ELSE IF tts[3].kind # "Ident" THEN Outcome(m, << >>, Panicked("unreachable"))
    ELSE LET r == BuildLocked(m, span)
         IN Outcome(m, << >>,
                    MacEager_items(<< [ident |-> tts[3].sym,
                                       node |-> "Const",
                                       ty |-> [node |-> "Array", elem |-> "(&'static str, &'static str)",
                                               len |-> r.count],
                                       expr |-> r.expr,
                                       vis |-> "Public",
                                       span |-> span] >>))

\* ------------------------------------------------------------------ inputs
Rep(ch, n) == [i \in 1..n |-> ch]

\* "\nfoo\n"
DescGood == << 10, 102, 111, 111, 10 >>
\* "foo"
DescNoNewline == << 102, 111, 111 >>
\* "\n" ++ 81 x 'a' ++ "\n"
DescWide == StrNL \o Rep(97, MAX_DESCRIPTION_WIDTH + 1) \o StrNL
\* "\nbar\n"
DescOther == << 10, 98, 97, 114, 10 >>

RegDescs == {DescGood, DescOther, DescNoNewline, DescWide}

\* The descriptions among them that break a rule: no line break at either end,
\* and an 81-column plain line.
MalformedDescs == {DescNoNewline, DescWide}

\* The sites of the mark-used invocations are Spans; registrations and the
\* array declaration are invoked from the error-code list.
DeclSpans == {0}

UsedTts == {<< TokIdent(c) >> : c \in Names} \cup {<< >>, << TokComma >>}

RegisterTts == {<< TokIdent(c) >> : c \in Names}
               \cup {<< TokIdent(c), TokComma, TokLit(d) >> : c \in Names, d \in RegDescs}
               \cup {<< >>, << TokIdent(1), TokComma >>, << TokComma >>,
                     << TokIdent(1), TokIdent(1), TokLit(DescGood) >>}

BuildTts == {<< TokIdent(1), TokComma, TokIdent(2) >>}
            \cup {<< TokIdent(1) >>, << TokIdent(1), TokComma, TokComma >>}

\* ------------------------------------------------------------------- state
VARIABLES
    diagnostics,   \* ParseSess::registered_diagnostics, an ErrorMap
    emitted,       \* the diagnostics the last call handed to the handler
    ret,           \* what the last call returned
    call,          \* the last call: [op, span, tts]
    nOps,          \* calls made so far
    firstReg,      \* history: per code, Some(description of its first registration)
    firstUse,      \* history: per code, Some(span of its first mark-used while registered)
    usedSince,     \* history: per code, Some(span of its first mark-used since it was last registered)
    regOrder       \* history: the codes in the order of their first registration

regVars == << diagnostics, emitted, ret, call, nOps, firstReg, firstUse, usedSince, regOrder >>

VARIABLES
    dmsg,           \* description check: the description handed in, an Option
    dreport,        \* description check: the errors it emitted
    dpc            \* description check: "input" before the check, "checked" after

descVars == << dmsg, dreport, dpc >>

VARIABLES
    lock,          \* callers: the holder of the registry lock, 0 when free
    tpc,           \* callers: where each caller is in its call
    tcall,         \* callers: the call each caller makes, [op, code, description]
    tseen,         \* callers: what the caller's lookup found
    tout,          \* callers: the diagnostics each caller emitted
    tret,          \* callers: what each call returned
    diag0          \* callers: the registry before the calls

concVars == << lock, tpc, tcall, tseen, tout, tret, diag0 >>

VARIABLES
    known,         \* resolver: the macros whose definition it has seen
    invocations,   \* expansion loop: the invocations still to try in this round
    undetermined,  \* expansion loop: the invocations put off to the next round
    force,         \* expansion loop: the round must decide every invocation
    progress,      \* expansion loop: an invocation was expanded in this round
    sink,          \* the diagnostics emitted, in order
    results,       \* per invocation: "pending", "expanded" or "dummy"
    attempts,      \* history: per invocation, its indeterminate attempts
    definedBy      \* per macro: 0 if defined from the start, else the invocation whose expansion defines it

retryVars == << known, invocations, undetermined, force, progress, sink, results, attempts,
                definedBy >>

VARIABLES
    mres,          \* expansion result: the Box<dyn MacResult> the driver holds
    mctor,         \* expansion result: the constructor that built it
    mreq,          \* expansion result: the fragment kind asked of it, "none" before
    mout           \* expansion result: what the accessor returned

resVars == << mres, mctor, mreq, mout >>

VARIABLES
    ext,           \* syntax extension: the SyntaxExtension asked for its macro kind
    extOut         \* syntax extension: the MacroKind returned, "none" before

extVars == << ext, extOut >>

VARIABLES
    expn,          \* hygiene data: per ExpnId, its ExpnData
    cur,           \* ExtCtxt::current_expansion.id
    source_map,    \* ParseSess::source_map: per location, the FileName of its file
    expansions,    \* ExtCtxt::expansions: per span, the trace notes collected for it
    handler,       \* ParseSess::span_diagnostic: the diagnostics emitted, in order
    cret,          \* the last call on the context: [op, arg, value]
    unwound,       \* a call did not return: the pass is unwinding
    ncalls         \* calls made on the context

ctxVars == << expn, cur, source_map, expansions, handler, cret, unwound, ncalls >>

\* The state of the registry macros (diagnostics/plugin.rs) and of the
\* expansion interface (ext/base.rs).
pluginVars == << regVars, descVars, concVars, retryVars >>
baseVars == << resVars, extVars, ctxVars >>

vars == << pluginVars, baseVars >>

EmptyMap == [x \in {} |-> None]

NoCall == [op |-> "none", span |-> 0, tts |-> << >>]

RegInit ==
    /\ diagnostics = EmptyMap
    /\ emitted = << >>
    /\ ret = [kind |-> "none"]
    /\ call = NoCall
    /\ nOps = 0
    /\ firstReg = [c \in Names |-> None]
    /\ firstUse = [c \in Names |-> None]
    /\ usedSince = [c \in Names |-> None]
    /\ regOrder = << >>

\* A session makes calls until one of them unwinds.
CanCall == nOps < MaxOps /\ ret.kind # "panic"

Apply(op, span, tts, o) ==
    /\ diagnostics' = o.diagnostics
    /\ emitted' = o.emitted
    /\ ret' = o.ret
    /\ call' = [op |-> op, span |-> span, tts |-> tts]
    /\ nOps' = nOps + 1

\* The code a well-formed invocation names.
WellFormedUsed(tts) == Len(tts) = 1 /\ tts[1].kind = "Ident"
WellFormedRegister(tts) ==
    \/ Len(tts) = 1 /\ tts[1].kind = "Ident"
    \/ Len(tts) = 3 /\ tts[1].kind = "Ident" /\ tts[2].kind = "Comma" /\ tts[3].kind = "Literal"
GivenDescription(tts) == IF Len(tts) = 3 THEN Some(tts[3].sym) ELSE None

Used ==
    /\ CanCall
    /\ \E span \in Spans, tts \in UsedTts :
        /\ Apply("used", span, tts, expand_diagnostic_used(diagnostics, span, tts))
        /\ IF WellFormedUsed(tts) /\ IsSome(firstReg[tts[1].sym])
           THEN LET c == tts[1].sym
                IN /\ firstUse' = IF IsSome(firstUse[c]) THEN firstUse
                                  ELSE [firstUse EXCEPT ![c] = Some(span)]
                   /\ usedSince' = IF IsSome(usedSince[c]) THEN usedSince
                                   ELSE [usedSince EXCEPT ![c] = Some(span)]
           ELSE UNCHANGED << firstUse, usedSince >>
        /\ UNCHANGED << firstReg, regOrder >>
    /\ UNCHANGED << descVars, concVars, retryVars, baseVars >>

Register ==
    /\ CanCall
    /\ \E span \in DeclSpans, tts \in RegisterTts :
        /\ Apply("register", span, tts, expand_register_diagnostic(diagnostics, span, tts))
        /\ IF WellFormedRegister(tts)
           THEN LET c == tts[1].sym
                    d == GivenDescription(tts)
                IN /\ firstReg' = IF IsSome(firstReg[c]) THEN firstReg
                                  ELSE [firstReg EXCEPT ![c] = Some(d)]
                   /\ usedSince' = [usedSince EXCEPT ![c] = None]
                   /\ regOrder' = IF IsSome(firstReg[c]) THEN regOrder ELSE Append(regOrder, c)
           ELSE UNCHANGED << firstReg, usedSince, regOrder >>
        /\ UNCHANGED firstUse
    /\ UNCHANGED << descVars, concVars, retryVars, baseVars >>

Build ==
    /\ CanCall
    /\ \E span \in DeclSpans, tts \in BuildTts :
        /\ Apply("build", span, tts, expand_build_diagnostic_array(diagnostics, span, tts))
        /\ UNCHANGED << firstReg, firstUse, usedSince, regOrder >>
    /\ UNCHANGED << descVars, concVars, retryVars, baseVars >>

DescIdle == dmsg = None /\ dreport = << >> /\ dpc = "idle"

Threads == {1, 2}

ConcIdle ==
    /\ lock = 0
    /\ tpc = [t \in Threads |-> "idle"]
    /\ tcall = [t \in Threads |-> [op |-> "none", code |-> 0, description |-> None]]
    /\ tseen = [t \in Threads |-> None]
    /\ tout = [t \in Threads |-> << >>]
    /\ tret = [t \in Threads |-> [kind |-> "none"]]
    /\ diag0 = EmptyMap

RetryIdle ==
    /\ known = {}
    /\ invocations = << >>
    /\ undetermined = << >>
    /\ force = FALSE
    /\ progress = FALSE
    /\ sink = << >>
    /\ results = << >>
    /\ attempts = << >>
    /\ definedBy = << >>

ResIdle == mres = [kind |-> "none"] /\ mctor = "none" /\ mreq = "none" /\ mout = None

ExtIdle == ext = [kind |-> "none"] /\ extOut = "none"

CtxIdle ==
    /\ expn = << >>
    /\ cur = 0
    /\ source_map = << >>
    /\ expansions = << >>
    /\ handler = << >>
    /\ cret = [op |-> "none"]
    /\ unwound = FALSE
    /\ ncalls = 0

BaseIdle == ResIdle /\ ExtIdle /\ CtxIdle

Init == RegInit /\ DescIdle /\ ConcIdle /\ RetryIdle /\ BaseIdle

Next == Used \/ Register \/ Build

Spec == Init /\ [][Next]_vars

\* ------------------------------------------- the description check alone
\* Lines the check is tried on.
PlainLine(n) == Rep(97, n)
\* "[a]: http" ++ n x 'a'
FootnoteLine(n) == << 91, 97, 93, 58, 32, 104, 116, 116, 112 >> \o Rep(97, n)

CheckedLines ==
    {PlainLine(0), PlainLine(1),
     PlainLine(MAX_DESCRIPTION_WIDTH - 1), PlainLine(MAX_DESCRIPTION_WIDTH),
     PlainLine(MAX_DESCRIPTION_WIDTH + 1),
     \* 79 x 'a' ++ U+00E9: 80 characters, 81 bytes
     PlainLine(MAX_DESCRIPTION_WIDTH - 1) \o << 233 >>,
     \* 40 x U+00E9: 40 characters, 80 bytes
     Rep(233, MAX_DESCRIPTION_WIDTH \div 2),
     \* a line closed by "\r\n"
     PlainLine(MAX_DESCRIPTION_WIDTH) \o << 13 >>,
     PlainLine(MAX_DESCRIPTION_WIDTH + 1) \o << 13 >>,
     FootnoteLine(1), FootnoteLine(MAX_DESCRIPTION_WIDTH),
     \* "[a] http" ++ 80 x 'a': no "]:"
     << 91, 97, 93, 32, 104, 116, 116, 112 >> \o PlainLine(MAX_DESCRIPTION_WIDTH),
     \* " [a]: http" ++ 80 x 'a': does not start with "["
     << 32 >> \o FootnoteLine(MAX_DESCRIPTION_WIDTH),
     \* "[a]: ftp" ++ 80 x 'a'
     << 91, 97, 93, 58, 32, 102, 116, 112 >> \o PlainLine(MAX_DESCRIPTION_WIDTH),
     \* "[http" ++ 80 x 'a' ++ "]:"
     << 91, 104, 116, 116, 112 >> \o PlainLine(MAX_DESCRIPTION_WIDTH) \o << 93, 58 >>}

Ends == {<< >>, StrNL}

CheckedDescs ==
    {a \o l \o b : a \in Ends, l \in CheckedLines, b \in Ends}
    \cup {a \o l \o StrNL \o k \o b :
            a \in Ends, l \in CheckedLines,
            k \in {PlainLine(1), PlainLine(MAX_DESCRIPTION_WIDTH + 1)}, b \in Ends}

DescInputs == {None} \cup {Some(d) : d \in CheckedDescs}

DescInit == dmsg \in DescInputs /\ dreport = << >> /\ dpc = "input"

\* The check of a description, as a registration of code 1 at site 0 runs it.
CheckDesc ==
    /\ dpc = "input"
    /\ dreport' = CheckDescription(1, 0, dmsg)
    /\ dpc' = "checked"
    /\ UNCHANGED dmsg

InitDesc == RegInit /\ DescInit /\ ConcIdle /\ RetryIdle /\ BaseIdle

NextDesc == CheckDesc /\ UNCHANGED << regVars, concVars, retryVars, baseVars >>

SpecDesc == InitDesc /\ [][NextDesc]_vars

\* ------------------------------------------------------ concurrent callers
\* Two callers, each making one call from its own site (caller t from span t)
\* on a registry some earlier calls built.
ThreadSpan(t) == t

\* The site of the uses made before the callers start.
EarlierSpans == {NumSpans}

ConcCalls ==
    {[op |-> "used", code |-> c, description |-> None] : c \in Names}
    \cup {[op |-> "register", code |-> c, description |-> d] :
             c \in Names, d \in {None, Some(DescGood), Some(DescNoNewline)}}
    \cup {[op |-> "build", code |-> 0, description |-> None]}

\* Registries that registrations and uses lead to.
ConcRegistries ==
    UNION {[S -> {ErrorInfo(Some(DescGood), u) : u \in {None} \cup {Some(x) : x \in EarlierSpans}}] :
              S \in SUBSET Names}

\* Lock::with_lock enters when no one holds the lock.
LockFree(l) == l = 0

\* Variant: the lookup and the update sit in two critical sections.
LockAfterLookupReleased(t) == 0

\* The holder of the lock after the lookup: the update is in the same closure.
LockAfterLookup(t) == t

ConcInit ==
    /\ diagnostics \in ConcRegistries
    /\ diag0 = diagnostics
    /\ lock = 0
    /\ tpc = [t \in Threads |-> "start"]
    /\ tcall \in [Threads -> ConcCalls]
    /\ tseen = [t \in Threads |-> None]
    /\ tout = [t \in Threads |-> << >>]
    /\ tret = [t \in Threads |-> [kind |-> "none"]]
    /\ emitted = << >>
    /\ ret = [kind |-> "none"]
    /\ call = NoCall
    /\ nOps = 0
    /\ firstReg = [c \in Names |-> None]
    /\ firstUse = [c \in Names |-> None]
    /\ usedSince = [c \in Names |-> None]
    /\ regOrder = << >>

ConcFrame == UNCHANGED << emitted, ret, call, nOps, firstReg, firstUse, usedSince, regOrder,
                          descVars, retryVars, baseVars, tcall, diag0 >>

\* Before the lock: a registration checks its description.
TStart(t) ==
    /\ tpc[t] = "start"
    /\ tout' = [tout EXCEPT ![t] =
                   IF tcall[t].op = "register"
                   THEN CheckDescription(tcall[t].code, ThreadSpan(t), tcall[t].description)
                   ELSE << >>]
    /\ tpc' = [tpc EXCEPT ![t] = "acquire"]
    /\ UNCHANGED << diagnostics, lock, tseen, tret >>
    /\ ConcFrame

TAcquire(t) ==
    /\ tpc[t] = "acquire"
    /\ LockFree(lock)
    /\ lock' = t
    /\ tpc' = [tpc EXCEPT ![t] = "lookup"]
    /\ UNCHANGED << diagnostics, tseen, tout, tret >>
    /\ ConcFrame

\* get_mut, insert (which returns the previous value) or the iteration.
TLookup(t) ==
    /\ tpc[t] = "lookup"
    /\ LET c == tcall[t]
       IN /\ tseen' = [tseen EXCEPT ![t] =
                          IF c.op = "build" THEN Some(BuildLocked(diagnostics, ThreadSpan(t)))
                          ELSE get_mut(diagnostics, c.code)]
          /\ diagnostics' = IF c.op = "register"
                            THEN btree_insert(diagnostics, c.code, ErrorInfo(c.description, None))
                            ELSE diagnostics
    /\ lock' = LockAfterLookup(t)
    /\ tpc' = [tpc EXCEPT ![t] = "update"]
    /\ UNCHANGED << tout, tret >>
    /\ ConcFrame

\* The rest of the closure: the match arms, or the report of a previous value.
TUpdate(t) ==
    /\ tpc[t] = "update"
    /\ LET c == tcall[t]
       IN IF c.op = "used"
          THEN LET r == UsedMatch(diagnostics, tseen[t], c.code, ThreadSpan(t))
               IN /\ diagnostics' = r.diagnostics
                  /\ tout' = [tout EXCEPT ![t] = @ \o r.emitted]
          ELSE IF c.op = "register"
          THEN /\ tout' = [tout EXCEPT ![t] = @ \o RegisterReport(tseen[t], c.code, ThreadSpan(t))]
               /\ UNCHANGED diagnostics
          ELSE UNCHANGED << diagnostics, tout >>
    /\ tpc' = [tpc EXCEPT ![t] = "release"]
    /\ UNCHANGED << lock, tseen, tret >>
    /\ ConcFrame

\* The closure returns, the lock is dropped and the macro returns its result.
TRelease(t) ==
    /\ tpc[t] = "release"
    /\ lock' = IF lock = t THEN 0 ELSE lock
    /\ tret' = [tret EXCEPT ![t] =
                   IF tcall[t].op = "used" THEN MacEager_expr(expr_tuple(ThreadSpan(t), << >>))
                   ELSE IF tcall[t].op = "register" THEN MacEager_items(<< >>)
                   ELSE MacEager_items(<< Unwrap(tseen[t]) >>)]
    /\ tpc' = [tpc EXCEPT ![t] = "done"]
    /\ UNCHANGED << diagnostics, tseen, tout >>
    /\ ConcFrame

InitConc == ConcInit /\ DescIdle /\ RetryIdle /\ BaseIdle

NextConc == \E t \in Threads : TStart(t) \/ TAcquire(t) \/ TLookup(t) \/ TUpdate(t) \/ TRelease(t)

SpecConc == InitConc /\ [][NextConc]_vars

\* ------------------------------------------- resolution and the retry loop
\* Invocation i invokes macro i.
Invocs == 1..NumInvocs

\* Variant: an undecided attempt reports the macro as missing.
resolve_speculative(k, i, forced) ==
    IF i \in k THEN [res |-> "Single", diags |-> << >>]
    ELSE IF forced
    THEN [res |-> "Dummy", diags |-> << [invoc |-> i, level |-> "error", msg |-> "cannot_find_macro"] >>]
    ELSE [res |-> "Indeterminate",
          diags |-> << [invoc |-> i, level |-> "error", msg |-> "cannot_find_macro"] >>]

\* Resolver::resolve_macro_invocation: the extension, a failure decided under
\* force (reported, and a dummy extension stands in), or Indeterminate.
resolve_macro_invocation(k, i, forced) ==
    IF i \in k THEN [res |-> "Single", diags |-> << >>]
    ELSE IF forced
    THEN [res |-> "Dummy", diags |-> << [invoc |-> i, level |-> "error", msg |-> "cannot_find_macro"] >>]
    ELSE [res |-> "Indeterminate", diags |-> << >>]

\* What expanding invocation i with its extension emits.
ExpandDiags(i) == << [invoc |-> i, level |-> "warning", msg |-> "expanded"] >>

RetryInit ==
    /\ definedBy \in [Invocs -> {0} \cup Invocs]
    /\ known = {i \in Invocs : definedBy[i] = 0}
    /\ invocations = [i \in Invocs |-> i]
    /\ undetermined = << >>
    /\ force = FALSE
    /\ progress = FALSE
    /\ sink = << >>
    /\ results = [i \in Invocs |-> "pending"]
    /\ attempts = [i \in Invocs |-> 0]

\* One turn of the expansion loop: resolve the next invocation, put it off or
\* expand it, and start the next round when this one is through.
RetryStep ==
    /\ invocations # << >>
    /\ LET i == Head(invocations)
           r == resolve_macro_invocation(known, i, force)
           rest == Tail(invocations)
           put == IF r.res = "Indeterminate" THEN Append(undetermined, i) ELSE undetermined
           prog == IF r.res = "Indeterminate" THEN progress ELSE TRUE
       IN /\ sink' = sink \o r.diags \o (IF r.res = "Single" THEN ExpandDiags(i) ELSE << >>)
          /\ results' = IF r.res = "Single" THEN [results EXCEPT ![i] = "expanded"]
                        ELSE IF r.res = "Dummy" THEN [results EXCEPT ![i] = "dummy"]
                        ELSE results
          /\ known' = IF r.res = "Single"
                      THEN known \cup {j \in Invocs : definedBy[j] = i}
                      ELSE known
          /\ attempts' = IF r.res = "Indeterminate" THEN [attempts EXCEPT ![i] = @ + 1]
                         ELSE attempts
          /\ IF rest = << >> /\ put # << >>
             THEN /\ invocations' = put
                  /\ undetermined' = << >>
                  /\ force' = ~prog
                  /\ progress' = FALSE
             ELSE /\ invocations' = rest
                  /\ undetermined' = put
                  /\ force' = force
                  /\ progress' = prog
    /\ UNCHANGED definedBy

InitRetry == RegInit /\ DescIdle /\ ConcIdle /\ RetryInit /\ BaseIdle

NextRetry == RetryStep /\ UNCHANGED << regVars, descVars, concVars, baseVars >>

SpecRetry == InitRetry /\ [][NextRetry]_vars

\* ------------------------------------------------------ expansion results
\* The fragment kinds, named as the fields of MacEager and the make_* accessors.
FragmentKinds == {"expr", "pat", "items", "impl_items", "trait_items", "foreign_items",
                  "stmts", "ty"}

Stmt_Expr(span, e) == [id |-> "DUMMY_NODE_ID", span |-> span, node |-> "Expr", expr |-> e]
Pat_Lit(span, e) == [id |-> "DUMMY_NODE_ID", span |-> span, node |-> "Lit", expr |-> e]

\* make_stmts_default!: one expression statement around what make_expr gave.
make_stmts_default(e) ==
    IF IsSome(e) THEN Some(<< Stmt_Expr(Unwrap(e).span, Unwrap(e)) >>) ELSE None

\* An implementor of MacResult that provides the accessor of one fragment
\* kind and inherits the others.
Impl_make_expr(r) == IF r.slot = "expr" THEN Some(r.value) ELSE None

\* trait MacResult: the provided methods; make_stmts is make_stmts_default!
\* on the implementor's make_expr, every other one is None.
MacResult_make_default(r, k) ==
    IF k = "stmts" THEN make_stmts_default(Impl_make_expr(r)) ELSE None

Impl_make(r, k) == IF k = r.slot THEN Some(r.value) ELSE MacResult_make_default(r, k)

\* impl MacResult for MacEager.
MacEager_make_expr(r) == r.expr

\* Variant: an absent items slot reads as an empty item list.
MacEager_make_items_lenient(r) == IF IsSome(r.items) THEN r.items ELSE Some(<< >>)

MacEager_make_items(r) == r.items

\* Variant: a statements slot that is present is returned even when it is empty.
MacEager_make_stmts_present(r) ==
    IF IsSome(r.stmts) THEN r.stmts ELSE make_stmts_default(MacEager_make_expr(r))

MacEager_make_stmts(r) ==
    IF (IF IsSome(r.stmts) THEN Len(Unwrap(r.stmts)) ELSE 0) = 0
    THEN make_stmts_default(MacEager_make_expr(r))
    ELSE r.stmts

\* Variant: any expression is turned into a pattern.
MacEager_make_pat_any(r) ==
    IF IsSome(r.pat) THEN r.pat
    ELSE IF IsSome(r.expr) THEN Some(Pat_Lit(Unwrap(r.expr).span, Unwrap(r.expr)))
    ELSE None

MacEager_make_pat(r) ==
    IF IsSome(r.pat) THEN r.pat
    ELSE IF IsSome(r.expr) /\ Unwrap(r.expr).node = "Lit"
    THEN Some(Pat_Lit(Unwrap(r.expr).span, Unwrap(r.expr)))
    ELSE None

\* make_impl_items, make_trait_items, make_foreign_items and make_ty return
\* their slot.
MacEager_make(r, k) ==
    CASE k = "expr" -> MacEager_make_expr(r)
      [] k = "pat" -> MacEager_make_pat(r)
      [] k = "items" -> MacEager_make_items(r)
      [] k = "stmts" -> MacEager_make_stmts(r)
      [] k \in {"impl_items", "trait_items", "foreign_items", "ty"} -> r[k]

\* struct DummyResult and its constructors.
DummyResult(is_error, span) == [kind |-> "DummyResult", is_error |-> is_error, span |-> span]
DummyResult_any(span) == DummyResult(TRUE, span)
DummyResult_any_valid(span) == DummyResult(FALSE, span)

DummyResult_raw_expr(sp, is_error) ==
    IF is_error
    THEN [id |-> "DUMMY_NODE_ID", node |-> "Err", span |-> sp, attrs |-> << >>]
    ELSE [id |-> "DUMMY_NODE_ID", node |-> "Tup", elems |-> << >>, span |-> sp, attrs |-> << >>]

DummyResult_raw_pat(sp) == [id |-> "DUMMY_NODE_ID", node |-> "Wild", span |-> sp]

\* Variant: the placeholder type is the empty tuple also after an error.
DummyResult_raw_ty_valid(sp, is_error) ==
    [id |-> "DUMMY_NODE_ID", node |-> "Tup", elems |-> << >>, span |-> sp]

DummyResult_raw_ty(sp, is_error) ==
    IF is_error
    THEN [id |-> "DUMMY_NODE_ID", node |-> "Err", span |-> sp]
    ELSE [id |-> "DUMMY_NODE_ID", node |-> "Tup", elems |-> << >>, span |-> sp]

\* impl MacResult for DummyResult.
DummyResult_make(r, k) ==
    CASE k = "expr" -> Some(DummyResult_raw_expr(r.span, r.is_error))
      [] k = "pat" -> Some(DummyResult_raw_pat(r.span))
      [] k \in {"items", "impl_items", "trait_items", "foreign_items"} -> Some(<< >>)
      [] k = "stmts" ->
            Some(<< [id |-> "DUMMY_NODE_ID", node |-> "Expr",
                     expr |-> DummyResult_raw_expr(r.span, r.is_error), span |-> r.span] >>)
      [] k = "ty" -> Some(DummyResult_raw_ty(r.span, r.is_error))

\* The call of accessor make_<k> on a Box<dyn MacResult>.
MacResult_make(r, k) ==
    CASE r.kind = "MacEager" -> MacEager_make(r, k)
      [] r.kind = "DummyResult" -> DummyResult_make(r, k)
      [] r.kind = "Impl" -> Impl_make(r, k)

\* Fragments an extension may have built.
ExprSamples(sp) ==
    {expr_tuple(sp, << >>), expr_str(sp, DescNoNewline),
     [node |-> "Err", span |-> sp], [node |-> "Path", span |-> sp]}
PatSample(sp) == [id |-> "DUMMY_NODE_ID", node |-> "Ident", span |-> sp]
ItemSample(sp) == [node |-> "Fn", span |-> sp]
StmtSample(sp) == [id |-> "DUMMY_NODE_ID", node |-> "Semi", span |-> sp]
TySample(sp) == [id |-> "DUMMY_NODE_ID", node |-> "Never", span |-> sp]

ListsOf(x) == {None, Some(<< >>), Some(<< x >>)}

\* The values a slot of the given kind may hold.
SlotValues(k, sp) ==
    CASE k = "expr" -> ExprSamples(sp)
      [] k = "pat" -> {PatSample(sp)}
      [] k = "ty" -> {TySample(sp)}
      [] k = "stmts" -> {<< >>, << StmtSample(sp) >>}
      [] OTHER -> {<< >>, << ItemSample(sp) >>}

MacEagerInputs ==
    {[kind |-> "MacEager", expr |-> e, pat |-> p, items |-> i, impl_items |-> ii,
      trait_items |-> ti, foreign_items |-> fi, stmts |-> s, ty |-> t] :
        e \in {None} \cup {Some(x) : x \in UNION {ExprSamples(sp) : sp \in Spans}},
        p \in {None, Some(PatSample(1))},
        i \in ListsOf(ItemSample(1)),
        ii \in {None, Some(<< >>)},
        ti \in {None, Some(<< >>)},
        fi \in {None, Some(<< >>)},
        s \in ListsOf(StmtSample(1)),
        t \in {None, Some(TySample(1))}}

ImplInputs ==
    UNION {{[kind |-> "Impl", slot |-> k, value |-> v] : v \in SlotValues(k, sp)} :
              k \in FragmentKinds, sp \in Spans}

ResInit ==
    /\ \/ mctor = "MacEager" /\ mres \in MacEagerInputs
       \/ mctor = "impl" /\ mres \in ImplInputs
       \/ mctor = "any" /\ mres \in {DummyResult_any(sp) : sp \in Spans}
       \/ mctor = "any_valid" /\ mres \in {DummyResult_any_valid(sp) : sp \in Spans}
    /\ mreq = "none"
    /\ mout = None

\* The driver asks the result for the fragment kind of the call site; the
\* accessor consumes the result.
Make(k) ==
    /\ mreq = "none"
    /\ mreq' = k
    /\ mout' = MacResult_make(mres, k)
    /\ UNCHANGED << mres, mctor >>

InitResult == RegInit /\ DescIdle /\ ConcIdle /\ RetryIdle /\ ResInit /\ ExtIdle /\ CtxIdle

NextResult == (\E k \in FragmentKinds : Make(k)) /\ UNCHANGED << pluginVars, extVars, ctxVars >>

SpecResult == InitResult /\ [][NextResult]_vars

\* ------------------------------------------------------ syntax extensions
\* enum SyntaxExtensionKind: six variants own an expander, one a flag.
ExpanderKinds == {"Bang", "LegacyBang", "Attr", "LegacyAttr", "Derive", "LegacyDerive"}

SyntaxExtensionKind ==
    {[tag |-> t, expander |-> "fn"] : t \in ExpanderKinds}
    \cup {[tag |-> "NonMacroAttr", mark_used |-> b] : b \in BOOLEAN}

DUMMY_SP == 0

Editions == {"Edition2015", "Edition2018"}

\* SyntaxExtension::default.
SyntaxExtension_default(kind, edition) ==
    [kind |-> kind, span |-> DUMMY_SP, allow_internal_unstable |-> None,
     allow_internal_unsafe |-> FALSE, local_inner_macros |-> FALSE, stability |-> None,
     deprecation |-> None, helper_attrs |-> << >>, edition |-> edition,
     is_builtin |-> FALSE, is_derive_copy |-> FALSE]

\* Variant: an attribute that is not marked used counts as a function-like macro.
macro_kind_by_flag(self) ==
    CASE self.kind.tag \in {"Bang", "LegacyBang"} -> "Bang"
      [] self.kind.tag \in {"Attr", "LegacyAttr"} -> "Attr"
      [] self.kind.tag = "NonMacroAttr" -> IF self.kind.mark_used THEN "Attr" ELSE "Bang"
      [] self.kind.tag \in {"Derive", "LegacyDerive"} -> "Derive"

\* SyntaxExtension::macro_kind.
macro_kind(self) ==
    CASE self.kind.tag \in {"Bang", "LegacyBang"} -> "Bang"
      [] self.kind.tag \in {"Attr", "LegacyAttr", "NonMacroAttr"} -> "Attr"
      [] self.kind.tag \in {"Derive", "LegacyDerive"} -> "Derive"

\* Extensions with the public fields set as a definition's attributes may set them.
ExtInputs ==
    {[SyntaxExtension_default(k, ed) EXCEPT !.span = sp, !.allow_internal_unsafe = u,
                                            !.local_inner_macros = l, !.is_builtin = b] :
        k \in SyntaxExtensionKind, ed \in Editions, sp \in {DUMMY_SP} \cup Spans,
        u \in BOOLEAN, l \in BOOLEAN, b \in BOOLEAN}

ExtInit == ext \in ExtInputs /\ extOut = "none"

MacroKind ==
    /\ extOut = "none"
    /\ extOut' = macro_kind(ext)
    /\ UNCHANGED ext

InitExt == RegInit /\ DescIdle /\ ConcIdle /\ RetryIdle /\ ResIdle /\ ExtInit /\ CtxIdle

NextExt == MacroKind /\ UNCHANGED << pluginVars, resVars, ctxVars >>

SpecExt == InitExt /\ [][NextExt]_vars

\* ------------------------------------------------------ expansion context
Transparency == {"Transparent", "SemiTransparent", "Opaque"}

\* ExpnId::root().
ExpnId_root == 0
ExpnIds == 0..NumExpns

\* A SyntaxContext is the sequence of its marks, outermost last; a Span is a
\* location with a SyntaxContext.
SyntaxContext_root == << >>
Mark(expn_id, transparency) == [expn |-> expn_id, transparency |-> transparency]
Span(lo, ctxt) == [lo |-> lo, ctxt |-> ctxt]

\* SyntaxContext::outer_expn: the expansion of the outermost mark.
outer_expn(ctxt) == IF ctxt = << >> THEN ExpnId_root ELSE ctxt[Len(ctxt)].expn

\* SyntaxContext::modern and modern_and_legacy: the marks that stay visible
\* through an opaque, and through a semi-transparent, boundary.
modern(ctxt) == SelectSeq(ctxt, LAMBDA m : m.transparency = "Opaque")
modern_and_legacy(ctxt) == SelectSeq(ctxt, LAMBDA m : m.transparency # "Transparent")

\* SyntaxContext::apply_mark: a non-opaque mark is put on top of what its
\* expansion's call site shows through.
apply_mark(tbl, ctxt, expn_id, transparency) ==
    IF transparency = "Opaque" THEN Append(ctxt, Mark(expn_id, transparency))
    ELSE LET cs == tbl[expn_id].call_site.ctxt
             call_site_ctxt == IF transparency = "SemiTransparent" THEN modern(cs)
                               ELSE modern_and_legacy(cs)
         IN Append(call_site_ctxt \o ctxt, Mark(expn_id, transparency))

\* Span::with_ctxt_from_mark: the location of the span, with the context a
\* macro with this id and transparency produces.
with_ctxt_from_mark(tbl, span, expn_id, transparency) ==
    Span(span.lo, apply_mark(tbl, SyntaxContext_root, expn_id, transparency))

\* Variant: the definition-site context is transparent.
with_def_site_ctxt_transparent(tbl, id, span) == with_ctxt_from_mark(tbl, span, id, "Transparent")

\* ExtCtxt::with_def_site_ctxt, with_call_site_ctxt, with_legacy_ctxt
\* (id is self.current_expansion.id).
with_def_site_ctxt(tbl, id, span) == with_ctxt_from_mark(tbl, span, id, "Opaque")
with_call_site_ctxt(tbl, id, span) == with_ctxt_from_mark(tbl, span, id, "Transparent")

\* Variant: the mark is put on top of the context the span already has.
with_legacy_ctxt_stacked(tbl, id, span) ==
    Span(span.lo, apply_mark(tbl, span.ctxt, id, "SemiTransparent"))

with_legacy_ctxt(tbl, id, span) == with_ctxt_from_mark(tbl, span, id, "SemiTransparent")

\* ExpnData of the root, and SyntaxExtension::expn_data.
ExpnData_root == [kind |-> [tag |-> "Root"], parent |-> ExpnId_root,
                  call_site |-> Span(DUMMY_SP, SyntaxContext_root)]

expn_data(self, parent, call_site, descr) ==
    [kind |-> [tag |-> "Macro", macro_kind |-> macro_kind(self), descr |-> descr],
     parent |-> parent, call_site |-> call_site, def_site |-> self.span,
     allow_internal_unstable |-> self.allow_internal_unstable,
     allow_internal_unsafe |-> self.allow_internal_unsafe,
     local_inner_macros |-> self.local_inner_macros, edition |-> self.edition]

is_root(d) == d.kind.tag = "Root"
\* ExpnKind::descr.
descr(kind) == IF kind.tag = "Root" THEN "{{root}}" ELSE kind.descr

RECURSIVE expansion_cause_loop(_, _, _)
\* The loop of expansion_cause from frame expn_id on.
expansion_cause_loop(tbl, expn_id, last_macro) ==
    LET d == tbl[expn_id]
    IN IF is_root(d) \/ descr(d.kind) = "include" THEN last_macro
       ELSE expansion_cause_loop(tbl, outer_expn(d.call_site.ctxt), Some(d.call_site))

\* Variant: the call site of the first frame is the cause.
expansion_cause_innermost(tbl, id) ==
    LET d == tbl[id]
    IN IF is_root(d) \/ descr(d.kind) = "include" THEN None ELSE Some(d.call_site)

\* ExtCtxt::expansion_cause (id is self.current_expansion.id).
expansion_cause(tbl, id) == expansion_cause_loop(tbl, id, None)

\* The extensions whose invocations make the frames: include!, a macro_rules
\* macro and a derive, each with the transparency of the spans it produces.
FrameMacros ==
    {[ext |-> SyntaxExtension_default([tag |-> "LegacyBang", expander |-> "fn"], "Edition2018"),
      descr |-> "include", stamp |-> "Transparent"],
     [ext |-> SyntaxExtension_default([tag |-> "LegacyBang", expander |-> "fn"], "Edition2018"),
      descr |-> "vec", stamp |-> "SemiTransparent"],
     [ext |-> SyntaxExtension_default([tag |-> "Derive", expander |-> "fn"], "Edition2018"),
      descr |-> "Clone", stamp |-> "Opaque"]}

\* The hygiene data after the expansions 1..NumExpns: expansion i was invoked
\* at location i, in the source (parent root) or in what an earlier expansion
\* produced.
FrameOf(i, parent, m, pm) ==
    expn_data(m.ext, parent,
              Span(i, IF parent = ExpnId_root THEN SyntaxContext_root
                      ELSE << Mark(parent, pm.stamp) >>),
              m.descr)

ExpnTables ==
    {[i \in ExpnIds |-> IF i = ExpnId_root THEN ExpnData_root
                        ELSE FrameOf(i, par[i], mac[i],
                                     IF par[i] = ExpnId_root THEN mac[i] ELSE mac[par[i]])] :
        par \in {p \in [1..NumExpns -> ExpnIds] : \A i \in 1..NumExpns : p[i] < i},
        mac \in [1..NumExpns -> FrameMacros]}

\* Spans handed to the context: from the source, or produced by an expansion.
InputSpans ==
    {Span(lo, c) : lo \in {DUMMY_SP, 1},
                   c \in {SyntaxContext_root}
                         \cup {<< Mark(i, t) >> : i \in 1..NumExpns, t \in Transparency}}

NoCtxCall == [op |-> "none"]

HygieneInit ==
    /\ expn \in ExpnTables
    /\ cur \in ExpnIds
    /\ source_map = << >>
    /\ expansions = << >>
    /\ handler = << >>
    /\ cret = NoCtxCall
    /\ unwound = FALSE
    /\ ncalls = 0

\* A call that returns value and touches nothing of the context (&self).
Returns(op, arg, value) ==
    /\ cret' = [op |-> op, arg |-> arg, value |-> value]
    /\ ncalls' = ncalls + 1
    /\ UNCHANGED << expn, cur, source_map, expansions, handler, unwound >>

ExpansionCause ==
    /\ cret = NoCtxCall
    /\ Returns("expansion_cause", None, expansion_cause(expn, cur))

\* An extension asks for a span while it is expanded.
WithDefSiteCtxt ==
    /\ cret = NoCtxCall /\ cur # ExpnId_root
    /\ \E span \in InputSpans :
          Returns("with_def_site_ctxt", span, with_def_site_ctxt(expn, cur, span))

WithCallSiteCtxt ==
    /\ cret = NoCtxCall /\ cur # ExpnId_root
    /\ \E span \in InputSpans :
          Returns("with_call_site_ctxt", span, with_call_site_ctxt(expn, cur, span))

WithLegacyCtxt ==
    /\ cret = NoCtxCall /\ cur # ExpnId_root
    /\ \E span \in InputSpans :
          Returns("with_legacy_ctxt", span, with_legacy_ctxt(expn, cur, span))

InitHygiene == RegInit /\ DescIdle /\ ConcIdle /\ RetryIdle /\ ResIdle /\ ExtIdle /\ HygieneInit

NextHygiene ==
    (ExpansionCause \/ WithDefSiteCtxt \/ WithCallSiteCtxt \/ WithLegacyCtxt)
    /\ UNCHANGED << pluginVars, resVars, extVars >>

SpecHygiene == InitHygiene /\ [][NextHygiene]_vars

\* ------------------------------------------------------- path resolution
\* PathBuf (Unix): absolute or not, and the components.
PathBuf(abs, comps) == [abs |-> abs, comps |-> comps]
is_absolute(p) == p.abs
\* PathBuf::pop: drops the last component, if there is one.
pop(p) == IF p.comps = << >> THEN p ELSE [p EXCEPT !.comps = SubSeq(@, 1, Len(@) - 1)]
\* PathBuf::push: an absolute path replaces, a relative one is appended.
push(p, q) == IF is_absolute(q) THEN q ELSE [p EXCEPT !.comps = @ \o q.comps]

FileName_Real(path) == [tag |-> "Real", path |-> path]
FileName_DocTest(path, line) == [tag |-> "DocTest", path |-> path, line |-> line]
FileName_Anon == [tag |-> "Anon"]

RECURSIVE source_callsite(_, _)
\* Span::source_callsite: the call site of the outermost expansion the span
\* comes from; the span itself when it comes from no expansion.
source_callsite(tbl, span) ==
    LET d == tbl[outer_expn(span.ctxt)]
    IN IF ~is_root(d) THEN source_callsite(tbl, d.call_site) ELSE span

\* SourceMap::span_to_unmapped_path.
span_to_unmapped_path(sm, span) == sm[span.lo]

\* Variant: the path is resolved against the file the span itself lies in.
resolve_path_at_span(tbl, sm, path, span) ==
    IF ~is_absolute(path)
    THEN LET f == span_to_unmapped_path(sm, span)
         IN IF f.tag \in {"Real", "DocTest"} THEN push(pop(f.path), path)
            ELSE Panicked("cannot resolve relative path in non-file source")
    ELSE path

\* ExtCtxt::resolve_path.
resolve_path(tbl, sm, path, span) ==
    IF ~is_absolute(path)
    THEN LET callsite == source_callsite(tbl, span)
             f == span_to_unmapped_path(sm, callsite)
         IN IF f.tag \in {"Real", "DocTest"} THEN push(pop(f.path), path)
            ELSE Panicked("cannot resolve relative path in non-file source")
    ELSE path

\* "/src/lib.rs", the doctest "doc.rs" and a source that is no file.
FileNames ==
    {FileName_Real(PathBuf(TRUE, << "src", "lib.rs" >>)),
     FileName_DocTest(PathBuf(FALSE, << "doc.rs" >>), 1),
     FileName_Anon}

\* "/etc/x", "inc.rs" and "sub/inc.rs".
PathInputs ==
    {PathBuf(TRUE, << "etc", "x" >>), PathBuf(FALSE, << "inc.rs" >>),
     PathBuf(FALSE, << "sub", "inc.rs" >>)}

PathSpans ==
    {Span(lo, c) : lo \in 1..NumExpns,
                   c \in {SyntaxContext_root}
                         \cup {<< Mark(i, "SemiTransparent") >> : i \in 1..NumExpns}}

PathInit ==
    /\ expn \in {t \in ExpnTables : \A i \in 1..NumExpns : t[i].kind.descr = "vec"}
    /\ cur = ExpnId_root
    /\ source_map \in [1..NumExpns -> FileNames]
    /\ expansions = << >>
    /\ handler = << >>
    /\ cret = NoCtxCall
    /\ unwound = FALSE
    /\ ncalls = 0

ResolvePath ==
    /\ cret = NoCtxCall
    /\ \E path \in PathInputs, span \in PathSpans :
          LET r == resolve_path(expn, source_map, path, span)
          IN /\ cret' = [op |-> "resolve_path", arg |-> [path |-> path, span |-> span],
                         value |-> r]
             /\ unwound' = ("kind" \in DOMAIN r)
    /\ ncalls' = ncalls + 1
    /\ UNCHANGED << expn, cur, source_map, expansions, handler >>

InitPath == RegInit /\ DescIdle /\ ConcIdle /\ RetryIdle /\ ResIdle /\ ExtIdle /\ PathInit

NextPath == ResolvePath /\ UNCHANGED << pluginVars, resVars, extVars >>

SpecPath == InitPath /\ [][NextPath]_vars

\* ------------------------------------------------------------ diagnostics
\* Handler: every diagnostic goes to the one sink of the session.
Handler_emit(h, level, sp, msg, code) ==
    Append(h, [level |-> level, span |-> sp, msg |-> msg, code |-> code, children |-> << >>])

\* What a call on the context leaves: the sink, and whether control returns.
Called(h, returns) == [handler |-> h, returns |-> returns]

\* ExtCtxt::span_fatal (-> !): the handler's FatalError is raised.
span_fatal(h, sp, msg) == Called(Handler_emit(h, "fatal", Some(sp), msg, None), FALSE)

\* Variant: an error unwinds like a fatal error.
span_err_raises(h, sp, msg) == Called(Handler_emit(h, "error", Some(sp), msg, None), FALSE)

span_err(h, sp, msg) == Called(Handler_emit(h, "error", Some(sp), msg, None), TRUE)
span_err_with_code(h, sp, msg, code) ==
    Called(Handler_emit(h, "error", Some(sp), msg, Some(code)), TRUE)
span_warn(h, sp, msg) == Called(Handler_emit(h, "warning", Some(sp), msg, None), TRUE)
\* -> !
span_unimpl(h, sp, msg) == Called(Handler_emit(h, "bug", Some(sp), msg, None), FALSE)
span_bug(h, sp, msg) == Called(Handler_emit(h, "bug", Some(sp), msg, None), FALSE)
bug(h, msg) == Called(Handler_emit(h, "bug", None, msg, None), FALSE)

check_zero_tts(h, sp, tts, name) ==
    IF tts # << >> THEN Called(span_err(h, sp, "takes no arguments").handler, TRUE)
    ELSE Called(h, TRUE)

\* ExtCtxt::trace_macros_diag: one note per traced span, carrying the notes
\* collected for it, in the iteration order of the hash map; the map is cleared.
trace_macros_diag(h, exps, order) ==
    [handler |-> h \o [i \in 1..Len(order) |->
                          [level |-> "note", span |-> Some(order[i]), msg |-> "trace_macro",
                           code |-> None,
                           children |-> [j \in 1..Len(exps[order[i]]) |->
                                            [level |-> "note", msg |-> exps[order[i]][j]]]]],
     expansions |-> << >>,
     returns |-> TRUE]

\* The orders in which a hash map may be iterated.
IterOrders(m) ==
    {o \in [1..Cardinality(DOMAIN m) -> DOMAIN m] :
        \A i, j \in DOMAIN o : o[i] = o[j] => i = j}

\* The traces the expander may have collected when an extension runs.
TraceMaps == UNION {[S -> {<< "expanding m!", "to ()" >>}] : S \in SUBSET Spans}

DiagInit ==
    /\ expn = << >>
    /\ cur = ExpnId_root
    /\ source_map = << >>
    /\ expansions \in TraceMaps
    /\ handler = << >>
    /\ cret = NoCtxCall
    /\ unwound = FALSE
    /\ ncalls = 0

\* An extension calls until a call does not return.
CanEmit == ~unwound /\ ncalls < MaxCtxCalls

Emits(op, arg, r) ==
    /\ handler' = r.handler
    /\ unwound' = ~r.returns
    /\ cret' = [op |-> op, arg |-> arg, value |-> None]
    /\ ncalls' = ncalls + 1
    /\ UNCHANGED << expn, cur, source_map, expansions >>

SpanFatal ==
    CanEmit /\ \E sp \in Spans : Emits("span_fatal", [sp |-> sp], span_fatal(handler, sp, "msg"))
SpanErr ==
    CanEmit /\ \E sp \in Spans : Emits("span_err", [sp |-> sp], span_err(handler, sp, "msg"))
SpanErrWithCode ==
    CanEmit /\ \E sp \in Spans :
        Emits("span_err_with_code", [sp |-> sp], span_err_with_code(handler, sp, "msg", "E0001"))
SpanWarn ==
    CanEmit /\ \E sp \in Spans : Emits("span_warn", [sp |-> sp], span_warn(handler, sp, "msg"))
SpanUnimpl ==
    CanEmit /\ \E sp \in Spans : Emits("span_unimpl", [sp |-> sp], span_unimpl(handler, sp, "msg"))
SpanBug ==
    CanEmit /\ \E sp \in Spans : Emits("span_bug", [sp |-> sp], span_bug(handler, sp, "msg"))
Bug ==
    CanEmit /\ Emits("bug", [sp |-> DUMMY_SP], bug(handler, "msg"))
CheckZeroTts ==
    CanEmit /\ \E sp \in Spans, tts \in {<< >>, << TokComma >>} :
        Emits("check_zero_tts", [sp |-> sp, tts |-> tts], check_zero_tts(handler, sp, tts, "name"))

TraceMacrosDiag ==
    /\ CanEmit
    /\ \E order \in IterOrders(expansions) :
          LET r == trace_macros_diag(handler, expansions, order)
          IN /\ handler' = r.handler
             /\ expansions' = r.expansions
             /\ unwound' = ~r.returns
             /\ cret' = [op |-> "trace_macros_diag", arg |-> [order |-> order], value |-> None]
    /\ ncalls' = ncalls + 1
    /\ UNCHANGED << expn, cur, source_map >>

InitDiag == RegInit /\ DescIdle /\ ConcIdle /\ RetryIdle /\ ResIdle /\ ExtIdle /\ DiagInit

NextDiag ==
    (SpanFatal \/ SpanErr \/ SpanErrWithCode \/ SpanWarn \/ SpanUnimpl \/ SpanBug \/ Bug
     \/ CheckZeroTts \/ TraceMacrosDiag)
    /\ UNCHANGED << pluginVars, resVars, extVars >>

SpecDiag == InitDiag /\ [][NextDiag]_vars

\* ------------------------------------------- syntax extension construction
\* ast::Attribute: its name, its span and its meta item, which is a word
\* (#[a]), a name-value pair (#[a = "v"]) or a list (#[a(x, y)]) of nested
\* items. A nested item has a span and, when it is a plain name, an ident.
Attribute(name, sp, meta) == [name |-> name, span |-> sp, meta |-> meta]

\* attr::find_by_name: the first attribute of that name.
find_by_name(attrs, name) ==
    LET at == {i \in 1..Len(attrs) : attrs[i].name = name}
    IN IF at = {} THEN None ELSE Some(attrs[CHOOSE i \in at : \A j \in at : i <= j])

\* attr::contains_name.
contains_name(attrs, name) == \E i \in 1..Len(attrs) : attrs[i].name = name

\* Attribute::meta_item_list: the nested items of a list, None for the other forms.
meta_item_list(attr) == IF attr.meta.tag = "List" THEN Some(attr.meta.items) ELSE None

\* attr::list_contains_name.
list_contains_name(items, name) == \E i \in 1..Len(items) : items[i].ident = Some(name)

\* Variant: an attribute without a list allows nothing.
new_allow_internal_unstable_strict(h, attrs) ==
    LET found == find_by_name(attrs, "allow_internal_unstable")
        attr == Unwrap(found)
        list == meta_item_list(attr)
        named == SelectSeq(Unwrap(list), LAMBDA it : IsSome(it.ident))
        unnamed == SelectSeq(Unwrap(list), LAMBDA it : ~IsSome(it.ident))
    IN IF ~IsSome(found) THEN [value |-> None, handler |-> h]
       ELSE IF IsSome(list)
       THEN [value |-> Some([i \in 1..Len(named) |-> Unwrap(named[i].ident)]),
             handler |-> h \o [i \in 1..Len(unnamed) |->
                                  [level |-> "error", span |-> Some(unnamed[i].span),
                                   msg |-> "allow internal unstable expects feature names",
                                   code |-> None, children |-> << >>]]]
       ELSE [value |-> None,
             handler |-> Handler_emit(h, "warning", Some(attr.span),
                                      "allow_internal_unstable expects list of feature names",
                                      None)]

\* SyntaxExtension::new, the allow_internal_unstable field: the names of the
\* list's items, with an error for every item that is not a name; without a
\* list a warning and the backcompat name.
new_allow_internal_unstable(h, attrs) ==
    LET found == find_by_name(attrs, "allow_internal_unstable")
        attr == Unwrap(found)
        list == meta_item_list(attr)
        named == SelectSeq(Unwrap(list), LAMBDA it : IsSome(it.ident))
        unnamed == SelectSeq(Unwrap(list), LAMBDA it : ~IsSome(it.ident))
    IN IF ~IsSome(found) THEN [value |-> None, handler |-> h]
       ELSE IF IsSome(list)
       THEN [value |-> Some([i \in 1..Len(named) |-> Unwrap(named[i].ident)]),
             handler |-> h \o [i \in 1..Len(unnamed) |->
                                  [level |-> "error", span |-> Some(unnamed[i].span),
                                   msg |-> "allow internal unstable expects feature names",
                                   code |-> None, children |-> << >>]]]
       ELSE [value |-> Some(<< "allow_internal_unstable_backcompat_hack" >>),
             handler |-> Handler_emit(h, "warning", Some(attr.span),
                                      "allow_internal_unstable expects list of feature names",
                                      None)]

\* SyntaxExtension::new: the extension, the sink it leaves, and that it
\* returns. The attributes drawn carry no stability and no deprecation
\* attribute, so find_stability and find_deprecation find nothing.
SyntaxExtension_new(h, kind, span, helper_attrs, edition, name, attrs) ==
    LET aiu == new_allow_internal_unstable(h, attrs)
        macro_export == find_by_name(attrs, "macro_export")
        l == meta_item_list(Unwrap(macro_export))
        local_inner_macros ==
            IF IsSome(macro_export) /\ IsSome(l)
            THEN list_contains_name(Unwrap(l), "local_inner_macros")
            ELSE FALSE
        is_builtin == contains_name(attrs, "rustc_builtin_macro")
    IN [ext |-> [kind |-> kind, span |-> span,
                 allow_internal_unstable |-> aiu.value,
                 allow_internal_unsafe |-> contains_name(attrs, "allow_internal_unsafe"),
                 local_inner_macros |-> local_inner_macros,
                 stability |-> None, deprecation |-> None,
                 helper_attrs |-> helper_attrs, edition |-> edition,
                 is_builtin |-> is_builtin,
                 is_derive_copy |-> (is_builtin /\ name = "Copy")],
        handler |-> aiu.handler,
        returns |-> TRUE]

\* The attributes a macro definition may carry, before their spans are set.
MaxAttrs == 2

NestedItems ==
    {<< >>, << Some("foo") >>, << Some("foo"), Some("bar") >>, << Some("foo"), None >>,
     << None >>}

AttrShapes ==
    {[name |-> "allow_internal_unstable", meta |-> [tag |-> "Word"]],
     [name |-> "allow_internal_unstable", meta |-> [tag |-> "NameValue"]]}
    \cup {[name |-> "allow_internal_unstable", meta |-> [tag |-> "List", items |-> is]] :
             is \in NestedItems}
    \cup {[name |-> "macro_export", meta |-> [tag |-> "Word"]],
          [name |-> "macro_export",
           meta |-> [tag |-> "List", items |-> << Some("local_inner_macros") >>]],
          [name |-> "rustc_builtin_macro", meta |-> [tag |-> "Word"]],
          [name |-> "allow_internal_unsafe", meta |-> [tag |-> "Word"]]}

\* The i-th attribute spans location i, its j-th nested item location 10 * i + j.
Located(shapes) ==
    [i \in 1..Len(shapes) |->
        Attribute(shapes[i].name, i,
                  IF shapes[i].meta.tag = "List"
                  THEN [tag |-> "List",
                        items |-> [j \in 1..Len(shapes[i].meta.items) |->
                                      [ident |-> shapes[i].meta.items[j], span |-> 10 * i + j]]]
                  ELSE shapes[i].meta)]

AttrLists == {Located(shapes) : shapes \in UNION {[1..n -> AttrShapes] : n \in 0..MaxAttrs}}

\* A macro definition is lowered to its extension.
New ==
    /\ cret = NoCtxCall
    /\ \E kind \in SyntaxExtensionKind, sp \in Spans, name \in {"Copy", "Clone"},
          attrs \in AttrLists :
          LET r == SyntaxExtension_new(handler, kind, sp, << >>, "Edition2018", name, attrs)
          IN /\ ext' = r.ext
             /\ handler' = r.handler
             /\ unwound' = ~r.returns
             /\ cret' = [op |-> "new", arg |-> [attrs |-> attrs, name |-> name, span |-> sp],
                         value |-> None]
    /\ ncalls' = ncalls + 1
    /\ UNCHANGED << extOut, expn, cur, source_map, expansions >>

InitNew == RegInit /\ DescIdle /\ ConcIdle /\ RetryIdle /\ BaseIdle

NextNew == New /\ UNCHANGED << pluginVars, resVars >>

SpecNew == InitNew /\ [][NextNew]_vars

\* ------------------------------------------------------- string arguments
\* An ast::Expr is [node, span], and a literal also carries its ast::Lit l,
\* which is [node, span] and for a string also [sym, style].
\* MacroExpander::fully_expand_fragment(AstFragment::Expr(expr)).make_expr():
\* an expression without macro calls is left as it is; a macro call is
\* replaced by what it expands to, and one that failed has reported its error
\* and left the error marker.
fully_expand_fragment(h, expr, expansion) ==
    IF expr.node # "Mac" THEN [expr |-> expr, handler |-> h]
    ELSE [expr |-> expansion,
          handler |-> IF expansion.node = "Err"
                      THEN Handler_emit(h, "error", Some(expr.span), "expansion failed", None)
                      ELSE h]

\* ExtCtxt::struct_span_err: a diagnostic that is built and not yet emitted.
struct_span_err(sp, msg) ==
    [level |-> "error", span |-> Some(sp), msg |-> msg, code |-> None, children |-> << >>]

\* Result<T, E>.
Ok(v) == [tag |-> "Ok", v |-> v]
Err(e) == [tag |-> "Err", e |-> e]

\* Variant: an error marker is reported like any expression that is not a string.
expr_to_spanned_string_reporting(h, expr, err_msg, expansion) ==
    LET x == fully_expand_fragment(h, expr, expansion)
        e == x.expr
    IN [handler |-> x.handler,
        value |-> IF e.node = "Lit" /\ e.l.node = "Str"
                  THEN Ok(<< e.l.sym, e.l.style, e.span >>)
                  ELSE IF e.node = "Lit" THEN Err(Some(struct_span_err(e.l.span, err_msg)))
                  ELSE Err(Some(struct_span_err(e.span, err_msg)))]

\* expr_to_spanned_string.
expr_to_spanned_string(h, expr, err_msg, expansion) ==
    LET x == fully_expand_fragment(h, expr, expansion)
        e == x.expr
    IN [handler |-> x.handler,
        value |-> CASE e.node = "Lit" /\ e.l.node = "Str" ->
                         Ok(<< e.l.sym, e.l.style, e.span >>)
                    [] e.node = "Lit" /\ e.l.node = "Err" -> Err(None)
                    [] e.node = "Lit" /\ e.l.node \notin {"Str", "Err"} ->
                         Err(Some(struct_span_err(e.l.span, err_msg)))
                    [] e.node = "Err" -> Err(None)
                    [] OTHER -> Err(Some(struct_span_err(e.span, err_msg)))]

\* expr_to_string: a pending error is emitted; the span of the string is dropped.
expr_to_string(h, expr, err_msg, expansion) ==
    LET r == expr_to_spanned_string(h, expr, err_msg, expansion)
    IN IF r.value.tag = "Ok"
       THEN [handler |-> r.handler, value |-> Some(<< r.value.v[1], r.value.v[2] >>)]
       ELSE [handler |-> IF IsSome(r.value.e)
                         THEN LET d == Unwrap(r.value.e)
                              IN Handler_emit(r.handler, d.level, d.span, d.msg, d.code)
                         ELSE r.handler,
             value |-> None]

\* Parser::parse_expr on the tokens left: a token tree that is an expression
\* is taken off the front; anything else, a comma included, is a parse error.
parse_expr(p) ==
    IF p # << >> /\ p[1].kind = "Expr"
    THEN Ok([expr |-> p[1].expr, rest |-> Tail(p)])
    ELSE Err([level |-> "error", span |-> None, msg |-> "expected expression", code |-> None,
              children |-> << >>])

\* get_single_str_from_tts. exp gives, per span, what a macro call there
\* expands to. panictry! emits a parse error and raises FatalError.
get_single_str_from_tts(h, sp, tts, name, exp) ==
    IF tts = << >>
    THEN [handler |-> span_err(h, sp, "takes 1 argument").handler, returns |-> TRUE,
          value |-> None]
    ELSE LET pr == parse_expr(tts)
             parsed == pr.v.expr
             afterComma == IF pr.v.rest # << >> /\ pr.v.rest[1] = TokComma
                           THEN Tail(pr.v.rest) ELSE pr.v.rest
             h1 == IF afterComma # << >> THEN span_err(h, sp, "takes 1 argument").handler ELSE h
             r == expr_to_string(h1, parsed, "argument must be a string literal",
                                 IF parsed.node = "Mac" THEN exp[parsed.span] ELSE parsed)
         IN IF pr.tag = "Err"
            THEN [handler |-> Handler_emit(h, pr.e.level, pr.e.span, pr.e.msg, pr.e.code),
                  returns |-> FALSE, value |-> None]
            ELSE [handler |-> r.handler, returns |-> TRUE,
                  value |-> IF IsSome(r.value) THEN Some(Unwrap(r.value)[1]) ELSE None]

\* get_exprs_from_tts: the loop over the parser, with the expressions pushed so far.
RECURSIVE get_exprs_loop(_, _, _, _, _)
get_exprs_loop(h, sp, p, es, exp) ==
    IF p = << >> THEN [handler |-> h, returns |-> TRUE, value |-> Some(es)]
    ELSE LET pr == parse_expr(p)
             expr == pr.v.expr
             x == fully_expand_fragment(h, expr, IF expr.node = "Mac" THEN exp[expr.span] ELSE expr)
             rest == pr.v.rest
         IN IF pr.tag = "Err"
            THEN [handler |-> Handler_emit(h, pr.e.level, pr.e.span, pr.e.msg, pr.e.code),
                  returns |-> FALSE, value |-> None]
            ELSE IF rest # << >> /\ rest[1] = TokComma
            THEN get_exprs_loop(x.handler, sp, Tail(rest), Append(es, x.expr), exp)
            ELSE IF rest # << >>
            THEN [handler |-> span_err(x.handler, sp, "expected token: ,").handler,
                  returns |-> TRUE, value |-> None]
            ELSE get_exprs_loop(x.handler, sp, rest, Append(es, x.expr), exp)

get_exprs_from_tts(h, sp, tts, exp) == get_exprs_loop(h, sp, tts, << >>, exp)

\* Expressions without macro calls at a location, and the arguments handed in.
MacroFree(sp) ==
    {[node |-> "Lit", span |-> sp,
      l |-> [node |-> "Str", sym |-> "s", style |-> style, span |-> lsp]] :
        lsp \in Spans, style \in {"Cooked", "Raw"}}
    \cup {[node |-> "Lit", span |-> sp, l |-> [node |-> n, span |-> lsp]] :
             n \in {"Err", "Int"}, lsp \in Spans}
    \cup {[node |-> n, span |-> sp] : n \in {"Err", "Path"}}

StrArgs == UNION {MacroFree(sp) \cup {[node |-> "Mac", span |-> sp]} : sp \in Spans}

ErrMsgs == {"argument must be a string literal", "expected string literal"}

\* The sink holds what the pass reported before the call.
StrInit ==
    /\ expn = << >>
    /\ cur = ExpnId_root
    /\ source_map = << >>
    /\ expansions = << >>
    /\ handler \in {<< >>, Handler_emit(<< >>, "error", Some(1), "earlier", None)}
    /\ cret = NoCtxCall
    /\ unwound = FALSE
    /\ ncalls = 0

\* The token trees of a macro's arguments: expressions and commas.
TokExpr(e) == [kind |-> "Expr", expr |-> e]

ArgTts ==
    LET first == {TokExpr(e) : e \in {[node |-> "Lit", span |-> 1,
                                        l |-> [node |-> "Str", sym |-> "s", style |-> "Cooked",
                                               span |-> 1]],
                                       [node |-> "Lit", span |-> 1,
                                        l |-> [node |-> "Int", span |-> 1]],
                                       [node |-> "Mac", span |-> 1]}}
        second == {TokExpr(e) : e \in {[node |-> "Path", span |-> 2],
                                        [node |-> "Mac", span |-> 2]}}
    IN {<< >>, << TokComma >>}
       \cup {<< a >> : a \in first}
       \cup {<< a, TokComma >> : a \in first}
       \cup {<< a, TokComma, TokComma >> : a \in first}
       \cup {<< a, b >> : a \in first, b \in second}
       \cup {<< a, TokComma, b >> : a \in first, b \in second}
       \cup {<< a, TokComma, b, TokComma >> : a \in first, b \in second}

\* What the macro calls among the arguments may expand to.
ExpansionsOf(tts) ==
    LET at == {tts[i].expr.span : i \in {j \in 1..Len(tts) : tts[j].kind = "Expr"
                                                             /\ tts[j].expr.node = "Mac"}}
    IN {exp \in [at -> UNION {MacroFree(sp) : sp \in at}] : \A sp \in at : exp[sp].span = sp}

StrCall(op, arg, r, returns) ==
    /\ cret = NoCtxCall
    /\ handler' = r.handler
    /\ cret' = [op |-> op, arg |-> arg, value |-> r.value]
    /\ unwound' = ~returns
    /\ ncalls' = ncalls + 1
    /\ UNCHANGED << expn, cur, source_map, expansions >>

ExprToSpannedString ==
    \E expr \in StrArgs, msg \in ErrMsgs :
        \E expansion \in IF expr.node = "Mac" THEN MacroFree(expr.span) ELSE {expr} :
            StrCall("expr_to_spanned_string",
                    [expr |-> expr, err_msg |-> msg, expanded |-> expansion],
                    expr_to_spanned_string(handler, expr, msg, expansion), TRUE)

ExprToString ==
    \E expr \in StrArgs, msg \in ErrMsgs :
        \E expansion \in IF expr.node = "Mac" THEN MacroFree(expr.span) ELSE {expr} :
            StrCall("expr_to_string",
                    [expr |-> expr, err_msg |-> msg, expanded |-> expansion],
                    expr_to_string(handler, expr, msg, expansion), TRUE)

GetSingleStrFromTts ==
    \E sp \in Spans, tts \in ArgTts :
        \E exp \in ExpansionsOf(tts) :
            LET r == get_single_str_from_tts(handler, sp, tts, "name", exp)
            IN StrCall("get_single_str_from_tts", [sp |-> sp, tts |-> tts, exp |-> exp],
                       r, r.returns)

GetExprsFromTts ==
    \E sp \in Spans, tts \in ArgTts :
        \E exp \in ExpansionsOf(tts) :
            LET r == get_exprs_from_tts(handler, sp, tts, exp)
            IN StrCall("get_exprs_from_tts", [sp |-> sp, tts |-> tts, exp |-> exp],
                       r, r.returns)

InitStr == RegInit /\ DescIdle /\ ConcIdle /\ RetryIdle /\ ResIdle /\ ExtIdle /\ StrInit

NextStr ==
    (ExprToSpannedString \/ ExprToString \/ GetSingleStrFromTts \/ GetExprsFromTts)
    /\ UNCHANGED << pluginVars, resVars, extVars >>

SpecStr == InitStr /\ [][NextStr]_vars

\* ------------------------------------------------- what a caller observes
\* The step just taken was a well-formed call of the given macro.
StepOf(op) == nOps' = nOps + 1 /\ call'.op = op
CallCode(c) == c.tts[1].sym

HasDiag(es, level, text, code) ==
    \E i \in 1..Len(es) : es[i].level = level /\ es[i].msg = text /\ es[i].code = code

\* The (code, description) pairs of a rendered array expression.
PairsOf(expr) == [i \in 1..Len(expr.elems) |->
                     << expr.elems[i].elems[1].str, expr.elems[i].elems[2].str >>]

\* What a render of registry m shows for code c: Some(description), or None.
RenderedFor(m, c) ==
    LET ps == PairsOf(BuildLocked(m, 0).expr)
        at == {i \in 1..Len(ps) : ps[i][1] = c}
    IN IF at = {} THEN None ELSE Some(ps[CHOOSE i \in at : TRUE][2])

\* The codes whose first registration carried a malformed description.
BadlyRegistered ==
    {c \in Names : IsSome(firstReg[c]) /\ IsSome(Unwrap(firstReg[c]))
                   /\ Unwrap(Unwrap(firstReg[c])) \in MalformedDescs}

\* ------------------------------------------------------------------ claims
\* C1: re-registering a registered code is reported "already registered" and
\* does not replace the entry: after any sequence of registrations the render
\* shows, for every code, the description of its first registration.
C1_FirstRegistrationKept ==
    [][ /\ (StepOf("register") /\ WellFormedRegister(call'.tts) /\ IsSome(firstReg[CallCode(call')]))
           => HasDiag(emitted', "error", "already_registered", CallCode(call'))
        /\ \A c \in Names :
              IsSome(firstReg'[c]) => RenderedFor(diagnostics', c) = Unwrap(firstReg'[c])
      ]_vars

\* C2: once a registered code was marked used at L, a mark-used of it from
\* another location warns "already used" with a note at L, also when the code
\* was re-registered in between.
C2_FirstUseSurvivesReRegistration ==
    [][ (/\ StepOf("used") /\ WellFormedUsed(call'.tts)
         /\ IsSome(firstUse[CallCode(call')])
         /\ Unwrap(firstUse[CallCode(call')]) # call'.span)
        => emitted' = << Diag("warning", "already_used", CallCode(call'), call'.span,
                             firstUse[CallCode(call')]) >>
      ]_vars

\* C3: in a run of mark-used calls of a registered code, the first is silent
\* and records its location; every later one from another location emits
\* exactly one warning, no error, with a note at the first location, and the
\* recorded location stays the first one.
C3_UsedSequence ==
    [][ (StepOf("used") /\ WellFormedUsed(call'.tts) /\ IsSome(firstReg[CallCode(call')]))
        => LET c == CallCode(call')
               first == usedSince[c]
           IN IF ~IsSome(first)
              THEN emitted' = << >> /\ diagnostics'[c].use_site = Some(call'.span)
              ELSE /\ call'.span # Unwrap(first)
                        => emitted' = << Diag("warning", "already_used", c, call'.span, first) >>
                   /\ \A i \in 1..Len(emitted') : emitted'[i].level # "error"
                   /\ diagnostics'[c].use_site = first
                   /\ diagnostics' = diagnostics
      ]_vars

C3_Witness ==
    /\ call.op = "used" /\ WellFormedUsed(call.tts)
    /\ Len(emitted) = 1 /\ emitted[1].level = "warning" /\ emitted[1].msg = "already_used"
    /\ IsSome(emitted[1].note) /\ Unwrap(emitted[1].note) # call.span
    /\ diagnostics[CallCode(call)].use_site = emitted[1].note

\* C4: marking an unregistered code used emits exactly one non-fatal error,
\* leaves the registry as it was and returns an empty-tuple expression.
C4_UnregisteredUse ==
    [][ (StepOf("used") /\ WellFormedUsed(call'.tts) /\ ~IsSome(firstReg[CallCode(call')]))
        => /\ emitted' = << Diag("error", "not_registered", CallCode(call'), call'.span, None) >>
           /\ diagnostics' = diagnostics
           /\ CallCode(call') \notin DOMAIN diagnostics'
           /\ ret'.kind = "MacEager" /\ IsSome(ret'.expr)
           /\ Unwrap(ret'.expr).node = "Tup" /\ Unwrap(ret'.expr).elems = << >>
      ]_vars

C4_Witness ==
    /\ call.op = "used" /\ WellFormedUsed(call.tts)
    /\ HasDiag(emitted, "error", "not_registered", CallCode(call))
    /\ DOMAIN diagnostics # {} /\ CallCode(call) \notin DOMAIN diagnostics
    /\ ret.kind = "MacEager"

\* C5: a render yields exactly the (code, description) pairs of the registered
\* codes that have a description, one per code, in ascending code order, and
\* declares the array with as many elements.
C5_RenderSorted ==
    (call.op = "build" /\ ret.kind = "MacEager")
    => LET item == Unwrap(ret.items)[1]
           ps == PairsOf(item.expr)
       IN /\ {ps[i] : i \in 1..Len(ps)}
               = {<< c, Unwrap(diagnostics[c].description) >> :
                     c \in {x \in DOMAIN diagnostics : IsSome(diagnostics[x].description)}}
          /\ \A i \in 1..Len(ps) : \A j \in 1..Len(ps) : i < j => ps[i][1] < ps[j][1]
          /\ item.ty.len = Len(ps)

C5_Witness ==
    /\ call.op = "build" /\ ret.kind = "MacEager"
    /\ regOrder = << 2, 1 >>
    /\ Len(PairsOf(Unwrap(ret.items)[1].expr)) = 1
    /\ Unwrap(ret.items)[1].ty.len = 1

\* C6: a malformed description is reported as a non-fatal error and the code
\* is registered all the same: registering it again is "already registered"
\* and marking it used is not "not registered".
C6_MalformedStillRegisters ==
    [][ /\ (/\ StepOf("register") /\ WellFormedRegister(call'.tts)
            /\ ~IsSome(firstReg[CallCode(call')])
            /\ CallCode(call') \in BadlyRegistered')
           => /\ Len(emitted') >= 1
              /\ \A i \in 1..Len(emitted') :
                    emitted'[i].level = "error" /\ emitted'[i].msg \in {"no_newline", "line_too_long"}
              /\ ret'.kind = "MacEager"
              /\ CallCode(call') \in DOMAIN diagnostics'
        /\ (/\ StepOf("register") /\ WellFormedRegister(call'.tts)
            /\ CallCode(call') \in BadlyRegistered)
           => HasDiag(emitted', "error", "already_registered", CallCode(call'))
        /\ (/\ StepOf("used") /\ WellFormedUsed(call'.tts)
            /\ CallCode(call') \in BadlyRegistered)
           => ~HasDiag(emitted', "error", "not_registered", CallCode(call'))
      ]_vars

C6_Witness ==
    /\ call.op = "register" /\ WellFormedRegister(call.tts)
    /\ CallCode(call) \in BadlyRegistered
    /\ HasDiag(emitted, "error", "line_too_long", CallCode(call))
    /\ ~HasDiag(emitted, "error", "already_registered", CallCode(call))
    /\ CallCode(call) \in DOMAIN diagnostics

\* C7: a line-width violation is reported exactly when the description has a
\* line of more than 80 columns that is not a footnote reference
\* "[name]: http...".
Columns(l) == Len(l)

FootnoteRef(l) ==
    /\ starts_with(l, StrLBracket)
    /\ \E i \in 2..(Len(l) - 1) :
          /\ SubSeq(l, i, i + 1) = StrRBracketColon
          /\ \A j \in 2..(i - 1) : l[j] # 93
          /\ contains(SubSeq(l, i + 2, Len(l)), StrHttp)

C7_WidthRule ==
    (dpc = "checked" /\ IsSome(dmsg))
    => LET ls == lines(Unwrap(dmsg))
       IN HasDiag(dreport, "error", "line_too_long", 1)
          <=> \E i \in 1..Len(ls) :
                 Columns(ls[i]) > MAX_DESCRIPTION_WIDTH /\ ~FootnoteRef(ls[i])

\* C8: a supplied description is reported as malformed exactly when it does
\* not both start and end with a line break; no description, no report.
C8_NewlineRule ==
    dpc = "checked"
    => /\ HasDiag(dreport, "error", "no_newline", 1)
          <=> (IsSome(dmsg) /\ ~(/\ Len(Unwrap(dmsg)) >= 1
                                /\ Unwrap(dmsg)[1] = 10
                                /\ Unwrap(dmsg)[Len(Unwrap(dmsg))] = 10))
       /\ Cardinality({i \in 1..Len(dreport) : dreport[i].msg = "no_newline"}) <= 1

C8_Witness ==
    /\ dpc = "checked" /\ IsSome(dmsg)
    /\ Len(Unwrap(dmsg)) > 1
    /\ Unwrap(dmsg)[1] = 10 /\ Unwrap(dmsg)[Len(Unwrap(dmsg))] # 10
    /\ HasDiag(dreport, "error", "no_newline", 1)

\* C9: lookup and update of a call are one critical section of the registry
\* lock, so no update is lost: of two callers marking the same registered,
\* unused code, one records its site silently and the other is warned with a
\* note at that site; of two callers registering the same new code, exactly
\* one is told "already registered".
InCritical(t) == tpc[t] \in {"lookup", "update", "release"}

C9_NoLostUpdate ==
    /\ \A t \in Threads : \A u \in Threads : (InCritical(t) /\ InCritical(u)) => t = u
    /\ (\A t \in Threads : tpc[t] = "done")
       => \A c \in Names :
             /\ (/\ \A t \in Threads : tcall[t].op = "used" /\ tcall[t].code = c
                 /\ c \in DOMAIN diag0 /\ diag0[c].use_site = None)
                => \E t \in Threads :
                      /\ tout[t] = << >>
                      /\ diagnostics[c].use_site = Some(ThreadSpan(t))
                      /\ \A u \in Threads \ {t} :
                            tout[u] = << Diag("warning", "already_used", c, ThreadSpan(u),
                                              Some(ThreadSpan(t))) >>
             /\ (/\ \A t \in Threads : tcall[t].op = "register" /\ tcall[t].code = c
                 /\ c \notin DOMAIN diag0)
                => Cardinality({t \in Threads :
                                   HasDiag(tout[t], "error", "already_registered", c)}) = 1

C9_Witness ==
    /\ \A t \in Threads : tpc[t] = "done" /\ tcall[t].op = "used" /\ tcall[t].code = 1
    /\ 1 \in DOMAIN diag0 /\ diag0[1].use_site = None
    /\ tout[1] # << >> /\ tout[2] = << >>

\* C10: an indeterminate resolution attempt emits no diagnostic and changes
\* no expansion state, so an invocation that is put off and resolves later
\* ends with the diagnostics and the result of one resolved at once.
DiagsOf(i) == SelectSeq(sink, LAMBDA d : d.invoc = i)

C10_IndeterminateIsSilent ==
    [][ /\ (attempts' # attempts)
           => sink' = sink /\ results' = results /\ known' = known
        /\ \A i \in Invocs :
              /\ results'[i] = "pending" => DiagsOf(i)' = << >>
              /\ results'[i] = "expanded" => DiagsOf(i)' = ExpandDiags(i)
      ]_vars

C10_Witness ==
    \E i \in DOMAIN results : attempts[i] >= 1 /\ results[i] = "expanded"

\* C11: a registry macro handed token trees that do not match its arity or
\* token shape reports the violation through the `bug` channel, returns no
\* result, and reports no recoverable (warning or error) diagnostic.
WellFormedBuild(tts) == Len(tts) = 3 /\ tts[3].kind = "Ident"

Malformed(c) ==
    \/ c.op = "used" /\ ~WellFormedUsed(c.tts)
    \/ c.op = "register" /\ ~WellFormedRegister(c.tts)
    \/ c.op = "build" /\ ~WellFormedBuild(c.tts)

C11_MalformedIsBug ==
    [][ (nOps' = nOps + 1 /\ Malformed(call'))
        => /\ \E i \in 1..Len(emitted') : emitted'[i].level = "bug"
           /\ ret'.kind = "panic"
           /\ \A i \in 1..Len(emitted') : emitted'[i].level \notin {"warning", "error"}
      ]_vars

\* C12: a dummy result answers every fragment kind with a value of that kind:
\* the error-marker expression or type when built by DummyResult::any and the
\* empty tuple when built by DummyResult::any_valid, a wildcard pattern, an
\* empty list for the four item kinds, and exactly one expression statement
\* around the placeholder expression for statements.
Placeholder(x, is_error) ==
    IF is_error THEN x.node = "Err" ELSE x.node = "Tup" /\ x.elems = << >>

C12_DummyNeverUnsupported ==
    (mctor \in {"any", "any_valid"} /\ mreq # "none")
    => /\ IsSome(mout)
       /\ mres.is_error = (mctor = "any")
       /\ LET v == Unwrap(mout)
              is_error == (mctor = "any")
          IN CASE mreq \in {"expr", "ty"} -> Placeholder(v, is_error)
               [] mreq = "pat" -> v.node = "Wild"
               [] mreq = "stmts" -> /\ Len(v) = 1
                                    /\ v[1].node = "Expr"
                                    /\ Placeholder(v[1].expr, is_error)
               [] OTHER -> v = << >>

C12_Witness ==
    /\ mctor = "any" /\ mreq = "ty" /\ IsSome(mout) /\ Unwrap(mout).node = "Err"

\* C13: a MacEager holding only an expression gives, for statements, exactly
\* one expression statement around that expression with the expression's
\* span; for a pattern, a literal pattern around the expression if and only
\* if the expression is a literal; for a type or items, nothing.
Populated(r) == {k \in FragmentKinds : IsSome(r[k])}

C13_ExprOnly ==
    (mctor = "MacEager" /\ Populated(mres) = {"expr"} /\ mreq # "none")
    => LET e == Unwrap(mres.expr)
       IN /\ mreq = "stmts"
               => /\ IsSome(mout) /\ Len(Unwrap(mout)) = 1
                  /\ Unwrap(mout)[1].node = "Expr"
                  /\ Unwrap(mout)[1].expr = e
                  /\ Unwrap(mout)[1].span = e.span
          /\ mreq = "pat"
               => IF e.node = "Lit"
                  THEN /\ IsSome(mout) /\ Unwrap(mout).node = "Lit" /\ Unwrap(mout).expr = e
                  ELSE mout = None
          /\ mreq \in {"ty", "items"} => mout = None

C13_Witness ==
    /\ mctor = "MacEager" /\ Populated(mres) = {"expr"}
    /\ Unwrap(mres.expr).node = "Tup" /\ mreq = "pat" /\ mout = None

\* C14: of a result with exactly one populated slot, of kind K (a MacEager or
\* an implementor that provides one accessor), every accessor of another kind
\* returns nothing, except that statements asked of an expression-only result
\* are one expression statement.
OneSlot == IF mctor = "MacEager" THEN Populated(mres)
           ELSE IF mctor = "impl" THEN {mres.slot} ELSE {}

IsExprStmt(o, e) ==
    /\ IsSome(o) /\ Len(Unwrap(o)) = 1
    /\ Unwrap(o)[1].node = "Expr" /\ Unwrap(o)[1].expr = e

SlotValue == IF mctor = "MacEager" THEN Unwrap(mres[CHOOSE k \in OneSlot : TRUE])
             ELSE mres.value

C14_CrossKindNone ==
    (Cardinality(OneSlot) = 1 /\ mreq # "none" /\ mreq \notin OneSlot)
    => IF OneSlot = {"expr"} /\ mreq = "stmts"
       THEN IsExprStmt(mout, SlotValue)
       ELSE mout = None

\* C14 as amended: a second exception is a pattern asked of a MacEager whose
\* only slot is a literal expression, which is a literal pattern around it.
C14_CrossKindAmended ==
    (Cardinality(OneSlot) = 1 /\ mreq # "none" /\ mreq \notin OneSlot)
    => IF OneSlot = {"expr"} /\ mreq = "stmts"
       THEN IsExprStmt(mout, SlotValue)
       ELSE IF mctor = "MacEager" /\ OneSlot = {"expr"} /\ mreq = "pat"
               /\ SlotValue.node = "Lit"
       THEN mout = Some(Pat_Lit(SlotValue.span, SlotValue))
       ELSE mout = None

C14_Witness ==
    /\ mctor = "impl" /\ mres.slot = "expr" /\ mreq = "stmts" /\ IsSome(mout)

\* C15: macro_kind is defined for all seven kinds of extension and is fixed
\* by the variant alone: Bang and LegacyBang are Bang; Attr, LegacyAttr and
\* NonMacroAttr (marked used or not) are Attr; Derive and LegacyDerive are Derive.
KindTable ==
    [t \in ExpanderKinds \cup {"NonMacroAttr"} |->
        IF t \in {"Bang", "LegacyBang"} THEN "Bang"
        ELSE IF t \in {"Derive", "LegacyDerive"} THEN "Derive" ELSE "Attr"]

C15_MacroKindFixed ==
    extOut # "none"
    => /\ ext.kind.tag \in DOMAIN KindTable
       /\ extOut = KindTable[ext.kind.tag]

C15_Witness ==
    /\ ext.kind.tag = "NonMacroAttr" /\ ~ext.kind.mark_used /\ ext.is_builtin
    /\ extOut = "Attr"

\* C16: expansion_cause walks the call sites up from the current expansion
\* and returns nothing when the current expansion is the root or the first
\* frame is an include; otherwise the call site of the last frame it visits
\* before the root or an include frame, the outermost attributable one.
RECURSIVE CallChain(_, _)
\* The frames from expansion id up to, and without, the root.
CallChain(tbl, id) ==
    IF id = ExpnId_root THEN << >>
    ELSE LET c == tbl[id].call_site.ctxt
         IN << id >> \o CallChain(tbl, IF c = SyntaxContext_root THEN ExpnId_root
                                       ELSE c[Len(c)].expn)

IsInclude(tbl, id) == tbl[id].kind.descr = "include"

\* How many frames of the chain come before the first include frame.
Attributable(tbl, c) ==
    CHOOSE n \in 0..Len(c) :
        /\ \A j \in 1..n : ~IsInclude(tbl, c[j])
        /\ n < Len(c) => IsInclude(tbl, c[n + 1])

C16_OutermostCause ==
    cret.op = "expansion_cause"
    => LET c == CallChain(expn, cur)
           n == Attributable(expn, c)
       IN /\ cur = ExpnId_root => cret.value = None
          /\ (c # << >> /\ IsInclude(expn, c[1])) => cret.value = None
          /\ n >= 1 => cret.value = Some(expn[c[n]].call_site)
          /\ cret.value = None => n = 0

C16_Witness ==
    /\ cret.op = "expansion_cause"
    /\ Len(CallChain(expn, cur)) = 3
    /\ \A i \in 1..3 : ~IsInclude(expn, i)
    /\ cret.value = Some(expn[CallChain(expn, cur)[3]].call_site)
    /\ expn[CallChain(expn, cur)[3]].call_site.ctxt = SyntaxContext_root

\* C18: the three stamping operations return the span's location stamped
\* with the current expansion id, opaque for with_def_site_ctxt, transparent
\* for with_call_site_ctxt and semi-transparent for with_legacy_ctxt, whatever
\* kind of extension is being expanded, and leave the context as it was.
StampOps == {"with_def_site_ctxt", "with_call_site_ctxt", "with_legacy_ctxt"}

StampTransparency(op) ==
    IF op = "with_def_site_ctxt" THEN "Opaque"
    ELSE IF op = "with_call_site_ctxt" THEN "Transparent" ELSE "SemiTransparent"

OuterMark(span) == span.ctxt[Len(span.ctxt)]

C18_StampByOperation ==
    [][ (ncalls' = ncalls + 1 /\ cret'.op \in StampOps)
        => /\ cret'.value.lo = cret'.arg.lo
           /\ cret'.value.ctxt # << >>
           /\ OuterMark(cret'.value).expn = cur
           /\ OuterMark(cret'.value).transparency = StampTransparency(cret'.op)
           /\ cur' = cur /\ expn' = expn /\ source_map' = source_map /\ handler' = handler
           /\ ~unwound'
      ]_vars

C18_Witness ==
    /\ cret.op = "with_legacy_ctxt"
    /\ expn[cur].kind.macro_kind = "Derive"
    /\ OuterMark(cret.value) = Mark(cur, "SemiTransparent")
    /\ cret.arg.ctxt # << >>

\* C19: stamping a span that already has a hygiene provenance keeps that
\* provenance and only composes onto it: every mark of the given span is a
\* mark of the returned span.
MarksOf(ctxt) == {ctxt[i] : i \in 1..Len(ctxt)}

C19_ProvenanceKept ==
    cret.op \in StampOps => MarksOf(cret.arg.ctxt) \subseteq MarksOf(cret.value.ctxt)

\* C19 as amended: a stamping operation returns a new span at the location
\* of the given one whose provenance is made from the current expansion
\* alone: the operation's mark, composed onto marks of the current
\* expansion's call site; the provenance of the given span is not carried over.
C19_ProvenanceFromExpansion ==
    cret.op \in StampOps
    => /\ cret.value.lo = cret.arg.lo
       /\ MarksOf(cret.value.ctxt)
             \subseteq MarksOf(expn[cur].call_site.ctxt)
                        \cup {Mark(cur, StampTransparency(cret.op))}

C19_Witness ==
    /\ cret.op = "with_call_site_ctxt"
    /\ cret.arg.ctxt # << >> /\ OuterMark(cret.arg).expn # cur
    /\ MarksOf(cret.arg.ctxt) \cap MarksOf(cret.value.ctxt) = {}
    /\ Len(cret.value.ctxt) = 2

\* C17: resolve_path returns an absolute path as it is; a relative path is
\* joined to the directory of the file of the outermost call site of the
\* span; when that call site lies in no file the call fails fatally and
\* emits no diagnostic. The context is left as it was.
OutermostCallSite(tbl, span) ==
    IF span.ctxt = SyntaxContext_root THEN span
    ELSE LET c == CallChain(tbl, span.ctxt[Len(span.ctxt)].expn)
         IN tbl[c[Len(c)]].call_site

DirOf(file) == SubSeq(file.comps, 1, Len(file.comps) - 1)

C17_ResolvePath ==
    [][ (ncalls' = ncalls + 1 /\ cret'.op = "resolve_path")
        => LET path == cret'.arg.path
               file == source_map[OutermostCallSite(expn, cret'.arg.span).lo]
           IN /\ path.abs => cret'.value = path /\ ~unwound'
              /\ (~path.abs /\ file.tag \in {"Real", "DocTest"})
                    => /\ cret'.value = PathBuf(file.path.abs, DirOf(file.path) \o path.comps)
                       /\ ~unwound'
              /\ (~path.abs /\ file.tag \notin {"Real", "DocTest"})
                    => unwound' /\ cret'.value.kind = "panic"
              /\ handler' = handler
              /\ cur' = cur /\ expn' = expn /\ source_map' = source_map
      ]_vars

C17_Witness ==
    /\ cret.op = "resolve_path" /\ ~cret.arg.path.abs
    /\ cret.arg.span.ctxt # SyntaxContext_root
    /\ Len(CallChain(expn, cret.arg.span.ctxt[Len(cret.arg.span.ctxt)].expn)) >= 2
    /\ source_map[cret.arg.span.lo].tag = "Anon"
    /\ cret.value = PathBuf(TRUE, << "src", "sub", "inc.rs" >>)

\* C20: span_warn, span_err and span_err_with_code record one diagnostic of
\* their level in the session's sink and return, and so does check_zero_tts
\* also when its input is not empty; span_fatal, span_bug, bug and
\* span_unimpl do not return to the caller, and nothing is called after them.
NonFatalOps == {"span_warn", "span_err", "span_err_with_code"}
FatalOps == {"span_fatal", "span_bug", "bug", "span_unimpl"}

RecordsOne(h, h2, level, sp) ==
    /\ Len(h2) = Len(h) + 1
    /\ SubSeq(h2, 1, Len(h)) = h
    /\ h2[Len(h2)].level = level
    /\ h2[Len(h2)].span = << sp >>

C20_Severities ==
    [][ /\ (ncalls' = ncalls + 1 /\ cret'.op \in NonFatalOps)
           => /\ ~unwound'
              /\ RecordsOne(handler, handler',
                            IF cret'.op = "span_warn" THEN "warning" ELSE "error", cret'.arg.sp)
        /\ (ncalls' = ncalls + 1 /\ cret'.op = "check_zero_tts")
           => /\ ~unwound'
              /\ IF cret'.arg.tts = << >> THEN handler' = handler
                 ELSE RecordsOne(handler, handler', "error", cret'.arg.sp)
        /\ (ncalls' = ncalls + 1 /\ cret'.op \in FatalOps) => unwound'
        /\ unwound => (ncalls' = ncalls /\ handler' = handler)
      ]_vars

C20_Witness ==
    /\ ncalls = 2 /\ unwound
    /\ cret.op = "span_fatal"
    /\ Len(handler) = 2 /\ handler[1].level = "error" /\ handler[1].msg = "takes no arguments"

\* C23: MacEager's make_stmts returns a non-empty statements slot unchanged,
\* whatever the expression slot holds; with the statements slot absent or
\* empty it returns one expression statement around the expression slot when
\* that is populated, and None when it is not.
HasStmts(r) == IsSome(r.stmts) /\ Unwrap(r.stmts) # << >>

C23_StmtsPreferred ==
    (mctor = "MacEager" /\ mreq = "stmts") =>
        /\ HasStmts(mres) => mout = mres.stmts
        /\ (~HasStmts(mres) /\ IsSome(mres.expr)) =>
              /\ IsSome(mout)
              /\ Len(Unwrap(mout)) = 1
              /\ Unwrap(mout)[1].node = "Expr"
              /\ Unwrap(mout)[1].expr = Unwrap(mres.expr)
              /\ Unwrap(mout)[1].span = Unwrap(mres.expr).span
        /\ (~HasStmts(mres) /\ ~IsSome(mres.expr)) => mout = None

\* An empty statement list and no expression: the answer is None, not the
\* empty list.
C23_Witness ==
    /\ mctor = "MacEager"
    /\ mreq = "stmts"
    /\ mres.stmts = Some(<< >>)
    /\ mres.expr = None
    /\ mout = None

\* C21: SyntaxExtension::new sets allow_internal_unstable from the first
\* allow_internal_unstable attribute of the definition: None without such an
\* attribute; with a list, the names listed, in order; without a list, the
\* one backcompat name, and then exactly one warning is added to the sink. It
\* always returns an extension, and nothing it adds to the sink is fatal.
AiuAttrs(attrs) == {i \in 1..Len(attrs) : attrs[i].name = "allow_internal_unstable"}

FirstAiu(attrs) == attrs[CHOOSE i \in AiuAttrs(attrs) : \A j \in AiuAttrs(attrs) : i <= j]

ListedNames(items) ==
    LET named == SelectSeq(items, LAMBDA it : it.ident # None)
    IN [i \in 1..Len(named) |-> named[i].ident[1]]

C21_AllowInternalUnstable ==
    cret.op = "new" =>
        LET attrs == cret.arg.attrs IN
        /\ ~unwound
        /\ ext.kind \in SyntaxExtensionKind
        /\ \A i \in 1..Len(handler) : handler[i].level \in {"warning", "error"}
        /\ AiuAttrs(attrs) = {} => (ext.allow_internal_unstable = None /\ handler = << >>)
        /\ (AiuAttrs(attrs) # {} /\ FirstAiu(attrs).meta.tag = "List") =>
              /\ ext.allow_internal_unstable = Some(ListedNames(FirstAiu(attrs).meta.items))
              /\ \A i \in 1..Len(handler) : handler[i].level # "warning"
        /\ (AiuAttrs(attrs) # {} /\ FirstAiu(attrs).meta.tag # "List") =>
              /\ ext.allow_internal_unstable =
                    Some(<< "allow_internal_unstable_backcompat_hack" >>)
              /\ Len(handler) = 1
              /\ handler[1].level = "warning"
              /\ handler[1].span = Some(FirstAiu(attrs).span)

\* A bare #[allow_internal_unstable] gave the warning and the backcompat name.
C21_Witness ==
    /\ cret.op = "new"
    /\ AiuAttrs(cret.arg.attrs) # {}
    /\ FirstAiu(cret.arg.attrs).meta.tag = "Word"
    /\ ext.allow_internal_unstable = Some(<< "allow_internal_unstable_backcompat_hack" >>)
    /\ Len(handler) = 1
    /\ handler[1].level = "warning"

\* C22: extracting a string from an argument reports an error at most once.
\* With x the argument after eager expansion, expr_to_spanned_string returns
\* Ok(symbol, style, span of x) exactly when x is a string literal; for an
\* error marker or an error literal it returns Err with no diagnostic, and
\* expr_to_string adds nothing to the sink beyond what the expansion reported;
\* for any other x it returns Err with one pending error carrying the caller's
\* message, which expr_to_string emits as the one addition to the sink. The
\* call returns in every case and adds nothing fatal.
IsStrLit(x) == x.node = "Lit" /\ x.l.node = "Str"
AlreadyReported(x) == x.node = "Err" \/ (x.node = "Lit" /\ x.l.node = "Err")

\* What the eager expansion of the call just made left in the sink.
AfterExpansion ==
    IF cret'.arg.expr.node = "Mac" /\ cret'.arg.expanded.node = "Err"
    THEN SubSeq(handler', 1, Len(handler) + 1)
    ELSE handler

C22_NoSecondReport ==
    [][ cret'.op \in {"expr_to_spanned_string", "expr_to_string"} =>
          LET x == cret'.arg.expanded
              v == cret'.value
          IN /\ ~unwound'
             /\ \A i \in 1..Len(handler') : handler'[i].level # "fatal"
             /\ cret'.op = "expr_to_spanned_string" =>
                   /\ handler' = AfterExpansion
                   /\ v.tag = "Ok" <=> IsStrLit(x)
                   /\ IsStrLit(x) => v.v = << x.l.sym, x.l.style, x.span >>
                   /\ AlreadyReported(x) => v = [tag |-> "Err", e |-> << >>]
                   /\ (~IsStrLit(x) /\ ~AlreadyReported(x)) =>
                         /\ v.tag = "Err"
                         /\ Len(v.e) = 1
                         /\ v.e[1].level = "error"
                         /\ v.e[1].msg = cret'.arg.err_msg
             /\ cret'.op = "expr_to_string" =>
                   /\ IsStrLit(x) => (v = << << x.l.sym, x.l.style >> >> /\ handler' = AfterExpansion)
                   /\ AlreadyReported(x) => (v = << >> /\ handler' = AfterExpansion)
                   /\ (~IsStrLit(x) /\ ~AlreadyReported(x)) =>
                         /\ v = << >>
                         /\ Len(handler') = Len(AfterExpansion) + 1
                         /\ SubSeq(handler', 1, Len(AfterExpansion)) = AfterExpansion
                         /\ handler'[Len(handler')].level = "error"
                         /\ handler'[Len(handler')].msg = cret'.arg.err_msg
      ]_vars

\* A macro argument failed to expand: its error is in the sink, and
\* expr_to_string returned None without adding a second one.
C22_Witness ==
    /\ cret.op = "expr_to_string"
    /\ cret.arg.expr.node = "Mac"
    /\ cret.arg.expanded.node = "Err"
    /\ cret.value = << >>
    /\ Len(handler) = 2
    /\ handler[2].msg = "expansion failed"

====
